---------------------------- MODULE Spec2Model ----------------------------
(***************************************************************************)
(* Model of the FATest repository: the YAML normalization core             *)
(* (src/test.py), the JSON loader (src/backend/loader.py) and the serving  *)
(* layer's dataset caches and language projection (src/backend/main.py).   *)
(*                                                                         *)
(* Python values are tagged pairs <<tag, payload>>, so x[1] is the type of *)
(* x and x[2] its content: none, bool, int, str, list (payload: a sequence *)
(* of values) and dict (payload: a sequence of <<key, value>> pairs in     *)
(* insertion order, the keys distinct).  A raised exception is the value   *)
(* <<"exc", name>>: it propagates through every operator that receives it, *)
(* and a call whose result contains one has raised.                        *)
(***************************************************************************)
EXTENDS Integers, Sequences, FiniteSets, TLC

VARIABLES
    op,       \* the operation applied last ("init" before any)
    key,      \* the id / key argument of that call
    arg,      \* the raw input of that call
    arg_after, \* that input as the call left it
    out,      \* what the call returned, or the exception it raised
    phase,    \* the serving process: "off", "up", or "crashed" in create_app
    disk,     \* the JSON files of the data directories
    disable_eager,             \* APP_DISABLE_EAGER_VALIDATION == "1"
    validated_cache,           \* create_app's cache of the core datasets
    solutions_validated_cache, \* create_app's cache of the solutions datasets
    request,  \* the request served last
    call,     \* the call of _filter_lang made last, with what it returned
    response  \* what the handler of the last request returned or raised

core == <<op, key, arg, arg_after, out>>
server == <<phase, disk, disable_eager, validated_cache,
            solutions_validated_cache, request, call, response>>
vars == <<core, server>>

-----------------------------------------------------------------------------
(* Python values *)

None == <<"none", "None">>
BoolV(b) == <<"bool", b>>
IntV(n) == <<"int", n>>
StrV(s) == <<"str", s>>
ListV(s) == <<"list", s>>
DictV(s) == <<"dict", s>>
Exc(name) == <<"exc", name>>

EmptyDict == DictV(<<>>)
EmptyList == ListV(<<>>)
AttributeError == Exc("AttributeError")
KeyError == Exc("KeyError")
ValueError == Exc("ValueError")

IsNone(x) == x[1] = "none"
IsExc(x) == x[1] = "exc"
IsDict(x) == x[1] = "dict"
IsList(x) == x[1] = "list"

\* Python's truth value of an object: bool(x).
Truthy(x) ==
    CASE x[1] = "none" -> FALSE
      [] x[1] = "bool" -> x[2]
      [] x[1] = "int" -> x[2] # 0
      [] x[1] = "str" -> x[2] # ""
      [] x[1] = "list" -> Len(x[2]) # 0
      [] x[1] = "dict" -> Len(x[2]) # 0
      [] OTHER -> FALSE

\* a or b: a when it is truthy, else b; an exception raised by a propagates.
Or(a, b) == IF IsExc(a) THEN a ELSE IF Truthy(a) THEN a ELSE b

HasKey(d, k) == IsDict(d) /\ \E i \in 1..Len(d[2]) : d[2][i][1] = StrV(k)

Lookup(d, k) == d[2][CHOOSE i \in 1..Len(d[2]) : d[2][i][1] = StrV(k)][2]

\* d.get(k, default): AttributeError when d has no get method.
GetD(d, k, default) ==
    IF IsExc(d) THEN d
    ELSE IF ~IsDict(d) THEN AttributeError
    ELSE IF HasKey(d, k) THEN Lookup(d, k) ELSE default

\* d.get(k)
Get(d, k) == GetD(d, k, None)

\* d[k] on a mapping: KeyError when the key is missing.
Index(d, k) ==
    IF IsExc(d) THEN d
    ELSE IF ~IsDict(d) THEN Exc("TypeError")
    ELSE IF HasKey(d, k) THEN Lookup(d, k) ELSE KeyError

Keys(d) == [i \in 1..Len(d[2]) |-> d[2][i][1]]

\* Whether evaluating x raised: an exception anywhere inside it.
RECURSIVE HasExc(_)
HasExc(x) ==
    CASE x[1] = "exc" -> TRUE
      [] x[1] = "list" -> \E i \in 1..Len(x[2]) : HasExc(x[2][i])
      [] x[1] = "dict" -> \E i \in 1..Len(x[2]) : HasExc(x[2][i][2])
      [] OTHER -> FALSE

\* The value a call returns: its result, or the exception raised on the way.
Returns(x) == IF HasExc(x) THEN AttributeError ELSE x

-----------------------------------------------------------------------------
(* str() and repr() *)

Digit(n) == <<"0", "1", "2", "3", "4", "5", "6", "7", "8", "9">>[n + 1]

RECURSIVE NatStr(_)
NatStr(n) == IF n < 10 THEN Digit(n) ELSE NatStr(n \div 10) \o Digit(n % 10)

IntStr(n) == IF n < 0 THEN "-" \o NatStr(-n) ELSE NatStr(n)

RECURSIVE Join(_, _)
Join(s, sep) ==
    IF Len(s) = 0 THEN ""
    ELSE IF Len(s) = 1 THEN s[1]
    ELSE s[1] \o sep \o Join(Tail(s), sep)

\* repr(x); the strings of the model hold no quote or backslash.
RECURSIVE PyRepr(_)
PyRepr(x) ==
    CASE x[1] = "none" -> "None"
      [] x[1] = "bool" -> IF x[2] THEN "True" ELSE "False"
      [] x[1] = "int" -> IntStr(x[2])
      [] x[1] = "str" -> "'" \o x[2] \o "'"
      [] x[1] = "list" ->
            "[" \o Join([i \in 1..Len(x[2]) |-> PyRepr(x[2][i])], ", ") \o "]"
      [] x[1] = "dict" ->
            "{" \o Join([i \in 1..Len(x[2]) |->
                            PyRepr(x[2][i][1]) \o ": " \o PyRepr(x[2][i][2])], ", ")
                \o "}"
      [] OTHER -> "<exception>"

\* str(x): a str is itself, anything else its repr.
PyStr(x) == IF x[1] = "str" THEN x[2] ELSE PyRepr(x)

-----------------------------------------------------------------------------
(* Scalar coercion utilities *)

\* ensure_str without its default: a null stays null.
ensure_str_NoDefault(a) ==
    IF IsExc(a) THEN a
    ELSE IF IsNone(a) THEN None
    ELSE StrV(PyStr(a))

\* ensure_str(a, default="")
ensure_str(a) ==
    IF IsExc(a) THEN a
    ELSE IF IsNone(a) THEN StrV("")
    ELSE StrV(PyStr(a))

\* ensure_list_of_str leaving out the null elements of a list.
ensure_list_of_str_SkipNull(x) ==
    IF IsExc(x) THEN x
    ELSE IF IsNone(x) THEN EmptyList
    ELSE IF IsList(x)
    THEN ListV([i \in 1..Len(SelectSeq(x[2], LAMBDA el : ~IsNone(el))) |->
                  ensure_str(SelectSeq(x[2], LAMBDA el : ~IsNone(el))[i])])
    ELSE ListV(<<ensure_str(x)>>)

\* ensure_list_of_str(x)
ensure_list_of_str(x) ==
    IF IsExc(x) THEN x
    ELSE IF IsNone(x) THEN EmptyList
    ELSE IF IsList(x) THEN ListV([i \in 1..Len(x[2]) |-> ensure_str(x[2][i])])
    ELSE ListV(<<ensure_str(x)>>)

\* The idiom with a truth test in place of `is not None`.
StrOrNone_IfTruthy(x) == IF IsExc(x) THEN x ELSE IF Truthy(x) THEN ensure_str(x) ELSE None

\* The idiom `ensure_str(raw.get(k)) if raw.get(k) is not None else None`.
StrOrNone(x) == IF IsExc(x) THEN x ELSE IF IsNone(x) THEN None ELSE ensure_str(x)

\* A dict literal {k1: v1, ...} built from a sequence of <<name, value>>.
Obj(pairs) == DictV([i \in 1..Len(pairs) |-> <<StrV(pairs[i][1]), pairs[i][2]>>])

\* A normalizer call that leaves a default behind in the record it reads:
\* raw.setdefault("metadata", {}) in place of raw.get("metadata", {}).
raw_after_SetDefault(raw) ==
    IF IsDict(raw) /\ ~HasKey(raw, "metadata")
    THEN DictV(Append(raw[2], <<StrV("metadata"), EmptyDict>>))
    ELSE raw

\* The raw record a normalizer was given, as the call leaves it.  The
\* normalizers read it with .get, isinstance and str, and build their result
\* from new mappings and lists: no statement of theirs assigns into raw or
\* into a value nested in it, or calls a method that changes one.
raw_after(raw) == raw

-----------------------------------------------------------------------------
(* The four normalizers *)

\* The {title, summary, description} block of normalize_requirements.
ReqLang(block) ==
    Obj(<< <<"title", ensure_str(Get(block, "title"))>>,
           <<"summary", ensure_str(Get(block, "summary"))>>,
           <<"description", ensure_str(Get(block, "description"))>> >>)

\* normalize_requirements passing a non-empty supported_in through as it is.
normalize_requirements_KeepKeys(rid, raw0) ==
    LET raw == Or(raw0, EmptyDict)
        en == Or(Get(raw, "en"), EmptyDict)
        es == Or(Get(raw, "es"), EmptyDict)
        supported_in == Or(Get(raw, "supported_in"), EmptyDict)
        refs0 == Or(Get(raw, "references"), EmptyList)
        refs == IF IsExc(refs0) \/ IsList(refs0) THEN refs0 ELSE ListV(<<refs0>>)
        build ==
            Obj(<< <<"id", ensure_str(rid)>>,
                   <<"en", ReqLang(en)>>,
                   <<"es", ReqLang(es)>>,
                   <<"category", ensure_str(Get(raw, "category"))>>,
                   <<"supported_in",
                     IF IsExc(supported_in) THEN supported_in
                     ELSE IF Truthy(supported_in) THEN supported_in
                     ELSE None>>,
                   <<"references",
                     IF IsExc(refs) THEN refs
                     ELSE ListV([i \in 1..Len(refs[2]) |-> ensure_str(refs[2][i])])>>,
                   <<"metadata", GetD(raw, "metadata", EmptyDict)>>,
                   <<"last_update_time", StrOrNone(Get(raw, "last_update_time"))>> >>)
    IN  Returns(build)

normalize_requirements(rid, raw0) ==
    LET raw == Or(raw0, EmptyDict)
        en == Or(Get(raw, "en"), EmptyDict)
        es == Or(Get(raw, "es"), EmptyDict)
        supported_in == Or(Get(raw, "supported_in"), EmptyDict)
        refs0 == Or(Get(raw, "references"), EmptyList)
        refs == IF IsExc(refs0) \/ IsList(refs0) THEN refs0 ELSE ListV(<<refs0>>)
        build ==
            Obj(<< <<"id", ensure_str(rid)>>,
                   <<"en", ReqLang(en)>>,
                   <<"es", ReqLang(es)>>,
                   <<"category", ensure_str(Get(raw, "category"))>>,
                   <<"supported_in",
                     IF IsExc(supported_in) THEN supported_in
                     ELSE IF Truthy(supported_in)
                     THEN Obj(<< <<"essential", GetD(supported_in, "essential", None)>>,
                                 <<"advanced", GetD(supported_in, "advanced", None)>> >>)
                     ELSE None>>,
                   <<"references",
                     IF IsExc(refs) THEN refs
                     ELSE ListV([i \in 1..Len(refs[2]) |-> ensure_str(refs[2][i])])>>,
                   <<"metadata", GetD(raw, "metadata", EmptyDict)>>,
                   <<"last_update_time", StrOrNone(Get(raw, "last_update_time"))>> >>)
    IN  Returns(build)

\* An element of definitions_list whose link is always a string.
Definition_LinkStr(did, dval) ==
    IF IsDict(dval)
    THEN Obj(<< <<"id", ensure_str(did)>>,
                <<"title", ensure_str(Get(dval, "title"))>>,
                <<"link", ensure_str(Get(dval, "link"))>> >>)
    ELSE Obj(<< <<"id", ensure_str(did)>>,
                <<"title", ensure_str(dval)>>,
                <<"link", None>> >>)

\* One element of definitions_list, from the entry (did, dval) of defs.
Definition(did, dval) ==
    IF IsDict(dval)
    THEN Obj(<< <<"id", ensure_str(did)>>,
                <<"title", ensure_str(Get(dval, "title"))>>,
                <<"link", StrOrNone(Get(dval, "link"))>> >>)
    ELSE Obj(<< <<"id", ensure_str(did)>>,
                <<"title", ensure_str(dval)>>,
                <<"link", None>> >>)

normalize_compliance(name, raw0) ==
    LET raw == Or(raw0, EmptyDict)
        title == ensure_str(Get(raw, "title"))
        en == Or(Get(raw, "en"), EmptyDict)
        es == Or(Get(raw, "es"), EmptyDict)
        en_summary == ensure_str(Get(en, "summary"))
        es_summary == ensure_str(Get(es, "summary"))
        defs == Or(Get(raw, "definitions"), EmptyDict)
        definitions_list ==
            IF IsExc(defs) THEN defs
            ELSE IF IsDict(defs)
            THEN ListV([i \in 1..Len(defs[2]) |-> Definition(defs[2][i][1], defs[2][i][2])])
            ELSE EmptyList
        last == StrOrNone(Get(raw, "last_update_time"))
        build ==
            Obj(<< <<"id", ensure_str(name)>>,
                   <<"title", title>>,
                   <<"en_summary", en_summary>>,
                   <<"es_summary", es_summary>>,
                   <<"definitions", definitions_list>>,
                   <<"metadata", GetD(raw, "metadata", EmptyDict)>>,
                   <<"last_update_time", last>> >>)
    IN  Returns(build)

\* A mapping whose every listed field is ensure_str(block.get(field)).
StrFields(block, fields) ==
    Obj([i \in 1..Len(fields) |-> <<fields[i], ensure_str(Get(block, fields[i]))>>])

LangFields == <<"title", "description", "impact", "recommendation", "threat">>

ScoreBaseFields ==
    <<"attack_vector", "attack_complexity", "privileges_required",
      "user_interaction", "scope", "confidentiality", "integrity", "availability">>

ScoreTemporalFields ==
    <<"exploit_code_maturity", "remediation_level", "report_confidence">>

Score4BaseFields ==
    <<"attack_vector", "attack_complexity", "attack_requirements",
      "privileges_required", "user_interaction", "confidentiality_vc",
      "integrity_vi", "availability_va", "confidentiality_sc", "integrity_si",
      "availability_sa">>

Score4ThreatFields == <<"exploit_maturity">>

\* _lang_block of normalize_vulnerability
LangBlock(block) == StrFields(block, LangFields)

\* The gate opened by any mapping, the empty one included.
Gated_AnyMapping(sub_raw, fields) ==
    IF IsExc(sub_raw) THEN sub_raw
    ELSE IF IsDict(sub_raw) \/ Truthy(sub_raw) THEN StrFields(sub_raw, fields)
    ELSE None

\* `sub = None; if sub_raw: sub = {fields...}`
Gated(sub_raw, fields) ==
    IF IsExc(sub_raw) THEN sub_raw
    ELSE IF Truthy(sub_raw) THEN StrFields(sub_raw, fields)
    ELSE None

\* The score / score_v4 block: the wrapper and its two gated sub-objects.
ScoreBlock(score_raw0, k1, fields1, k2, fields2) ==
    LET score_raw == Or(score_raw0, EmptyDict)
        sub1 == Gated(Or(Get(score_raw, k1), EmptyDict), fields1)
        sub2 == Gated(Or(Get(score_raw, k2), EmptyDict), fields2)
    IN  IF IsExc(sub1) THEN sub1
        ELSE IF IsExc(sub2) THEN sub2
        ELSE IF Truthy(sub1) \/ Truthy(sub2)
        THEN Obj(<< <<k1, sub1>>, <<k2, sub2>> >>)
        ELSE None

\* The examples block built for any non-empty raw mapping.
Examples_AnyMapping(ex0) ==
    LET ex == Or(ex0, EmptyDict)
    IN  IF IsExc(ex) THEN ex
        ELSE IF IsDict(ex)
        THEN Obj(<< <<"non_compliant", ensure_str(Get(ex, "non_compliant"))>>,
                    <<"compliant", ensure_str(Get(ex, "compliant"))>> >>)
        ELSE None

\* The examples block of normalize_vulnerability.
Examples(ex0) ==
    LET ex == Or(ex0, EmptyDict)
    IN  IF IsExc(ex) THEN ex
        ELSE IF IsDict(ex) /\ Truthy(Or(Get(ex, "non_compliant"), Get(ex, "compliant")))
        THEN Obj(<< <<"non_compliant", ensure_str(Get(ex, "non_compliant"))>>,
                    <<"compliant", ensure_str(Get(ex, "compliant"))>> >>)
        ELSE None

\* normalize_vulnerability passing the raw metadata through.
normalize_vulnerability_PassMetadata(rid, raw0) ==
    LET raw == Or(raw0, EmptyDict)
        en == Or(Get(raw, "en"), EmptyDict)
        es == Or(Get(raw, "es"), EmptyDict)
        examples == Examples(Get(raw, "examples"))
        score == ScoreBlock(Get(raw, "score"), "base", ScoreBaseFields,
                            "temporal", ScoreTemporalFields)
        score_v4 == ScoreBlock(Get(raw, "score_v4"), "base", Score4BaseFields,
                               "threat", Score4ThreatFields)
        reqs0 == Or(Get(raw, "requirements"), EmptyList)
        reqs == IF IsExc(reqs0) \/ IsList(reqs0) THEN reqs0 ELSE ListV(<<reqs0>>)
        requirements ==
            IF IsExc(reqs) THEN reqs
            ELSE ListV([i \in 1..Len(reqs[2]) |-> ensure_str(reqs[2][i])])
        metadata_raw == Or(Get(raw, "metadata"), EmptyDict)
        en_metadata == Or(Get(metadata_raw, "en"), EmptyDict)
        en_metadata_details == ensure_str(Get(en_metadata, "details"))
        build ==
            Obj(<< <<"id", ensure_str(rid)>>,
                   <<"en", LangBlock(en)>>,
                   <<"es", LangBlock(es)>>,
                   <<"category", ensure_str(Get(raw, "category"))>>,
                   <<"examples", examples>>,
                   <<"remediation_time", StrOrNone(Get(raw, "remediation_time"))>>,
                   <<"score", score>>,
                   <<"score_v4", score_v4>>,
                   <<"requirements", requirements>>,
                   <<"metadata",
                     IF IsExc(en_metadata_details) THEN en_metadata_details
                     ELSE metadata_raw>>,
                   <<"last_update_time", StrOrNone(Get(raw, "last_update_time"))>> >>)
    IN  Returns(build)

normalize_vulnerability(rid, raw0) ==
    LET raw == Or(raw0, EmptyDict)
        en == Or(Get(raw, "en"), EmptyDict)
        es == Or(Get(raw, "es"), EmptyDict)
        examples == Examples(Get(raw, "examples"))
        score == ScoreBlock(Get(raw, "score"), "base", ScoreBaseFields,
                            "temporal", ScoreTemporalFields)
        score_v4 == ScoreBlock(Get(raw, "score_v4"), "base", Score4BaseFields,
                               "threat", Score4ThreatFields)
        reqs0 == Or(Get(raw, "requirements"), EmptyList)
        reqs == IF IsExc(reqs0) \/ IsList(reqs0) THEN reqs0 ELSE ListV(<<reqs0>>)
        requirements ==
            IF IsExc(reqs) THEN reqs
            ELSE ListV([i \in 1..Len(reqs[2]) |-> ensure_str(reqs[2][i])])
        metadata_raw == Or(Get(raw, "metadata"), EmptyDict)
        en_metadata == Or(Get(metadata_raw, "en"), EmptyDict)
        en_metadata_details == ensure_str(Get(en_metadata, "details"))
        build ==
            Obj(<< <<"id", ensure_str(rid)>>,
                   <<"en", LangBlock(en)>>,
                   <<"es", LangBlock(es)>>,
                   <<"category", ensure_str(Get(raw, "category"))>>,
                   <<"examples", examples>>,
                   <<"remediation_time", StrOrNone(Get(raw, "remediation_time"))>>,
                   <<"score", score>>,
                   <<"score_v4", score_v4>>,
                   <<"requirements", requirements>>,
                   <<"metadata",
                     Obj(<< <<"en", Obj(<< <<"details", en_metadata_details>> >>)>> >>)>>,
                   <<"last_update_time", StrOrNone(Get(raw, "last_update_time"))>> >>)
    IN  Returns(build)

\* code_example giving null for a block the solution lacks.
code_example_OrNull(name, sol) ==
    LET b == Or(Get(sol, name), EmptyDict)
    IN  IF IsExc(b) THEN b
        ELSE IF ~Truthy(b) THEN None
        ELSE Obj(<< <<"description", ensure_str(Get(b, "description"))>>,
                    <<"text", ensure_str(Get(b, "text"))>> >>)

\* code_example(name, sol) of normalize_solutions
code_example(name, sol) ==
    LET b == Or(Get(sol, name), EmptyDict)
    IN  Obj(<< <<"description", ensure_str(Get(b, "description"))>>,
               <<"text", ensure_str(Get(b, "text"))>> >>)

normalize_solutions(raw0) ==
    LET raw == Or(raw0, EmptyDict)
        vuln_id == ensure_str(Or(Get(raw, "vulnerability_id"), StrV("")))
        title == ensure_str(Or(Get(raw, "title"), StrV("")))
        context == ensure_list_of_str(Get(raw, "context"))
        need == ensure_str(Get(raw, "need"))
        solution == Or(Get(raw, "solution"), EmptyDict)
        insecure == code_example("insecure_code_example", solution)
        secure == code_example("secure_code_example", solution)
        language == ensure_str(Or(Get(solution, "language"), StrV("")))
        steps == ensure_list_of_str(Get(solution, "steps"))
        last ==
            IF IsExc(Get(raw, "last_update_time")) THEN Get(raw, "last_update_time")
            ELSE IF ~IsNone(Get(raw, "last_update_time"))
            THEN ensure_str(Index(raw, "last_update_time"))
            ELSE None
        build ==
            Obj(<< <<"vulnerability_id", vuln_id>>,
                   <<"title", title>>,
                   <<"context", context>>,
                   <<"need", need>>,
                   <<"solution",
                     Obj(<< <<"language", language>>,
                            <<"insecure_code_example", insecure>>,
                            <<"secure_code_example", secure>>,
                            <<"steps", steps>> >>)>>,
                   <<"last_update_time", last>> >>)
    IN  Returns(build)

-----------------------------------------------------------------------------
(* The parsers *)

\* str(rid), the key as the parsers pass it on.
str(x) == StrV(PyStr(x))

\* The loop of parse_requirements without its isinstance test: every entry
\* is normalized.
RECURSIVE ReqLoop_NoSkip(_, _)
ReqLoop_NoSkip(items, entries) ==
    IF Len(entries) = 0 THEN items
    ELSE ReqLoop_NoSkip(
             Append(items, normalize_requirements(str(Head(entries)[1]),
                                                  Head(entries)[2])),
             Tail(entries))

\* `for rid, raw in doc.items(): if isinstance(raw, dict): items.append(...)`
\* over the entries not yet visited, items being the list built so far.
RECURSIVE ReqLoop(_, _)
ReqLoop(items, entries) ==
    IF Len(entries) = 0 THEN items
    ELSE LET rid == Head(entries)[1]
             raw == Head(entries)[2]
         IN  IF IsDict(raw)
             THEN ReqLoop(Append(items, normalize_requirements(str(rid), raw)),
                          Tail(entries))
             ELSE ReqLoop(items, Tail(entries))

parse_requirements(doc) ==
    IF ~IsDict(doc) THEN AttributeError ELSE Returns(ListV(ReqLoop(<<>>, doc[2])))

RECURSIVE CompLoop(_, _)
CompLoop(items, entries) ==
    IF Len(entries) = 0 THEN items
    ELSE LET name == Head(entries)[1]
             raw == Head(entries)[2]
         IN  IF IsDict(raw)
             THEN CompLoop(Append(items, normalize_compliance(str(name), raw)),
                           Tail(entries))
             ELSE CompLoop(items, Tail(entries))

parse_compliance(doc) ==
    IF ~IsDict(doc) THEN AttributeError ELSE Returns(ListV(CompLoop(<<>>, doc[2])))

RECURSIVE VulnLoop(_, _)
VulnLoop(items, entries) ==
    IF Len(entries) = 0 THEN items
    ELSE LET vid == Head(entries)[1]
             raw == Head(entries)[2]
         IN  IF IsDict(raw)
             THEN VulnLoop(Append(items, normalize_vulnerability(str(vid), raw)),
                           Tail(entries))
             ELSE VulnLoop(items, Tail(entries))

parse_vulnerabilities(doc) ==
    IF ~IsDict(doc) THEN AttributeError ELSE Returns(ListV(VulnLoop(<<>>, doc[2])))

\* `for raw in doc: if isinstance(raw, dict): items.append(normalize_solutions(raw))`
RECURSIVE SolLoop(_, _)
SolLoop(items, elems) ==
    IF Len(elems) = 0 THEN items
    ELSE LET raw == Head(elems)
         IN  IF IsDict(raw)
             THEN SolLoop(Append(items, normalize_solutions(raw)), Tail(elems))
             ELSE SolLoop(items, Tail(elems))

\* parse_solutions with the commented-out mapping branch restored.
parse_solutions_WithMapping(doc) ==
    IF IsList(doc) THEN Returns(ListV(SolLoop(<<>>, doc[2])))
    ELSE IF IsDict(doc)
    THEN Returns(ListV(SolLoop(<<>>, [i \in 1..Len(doc[2]) |-> doc[2][i][2]])))
    ELSE EmptyList

\* Only a list root is walked; the mapping branch is commented out in the source.
parse_solutions(doc) ==
    IF IsList(doc) THEN Returns(ListV(SolLoop(<<>>, doc[2]))) ELSE EmptyList

-----------------------------------------------------------------------------
(* Files and loaders *)

\* A file as a loader finds it at its path: missing; present but unreadable
\* (read_text raises OSError); bytes that are not UTF-8; text the parser
\* rejects; or text that parses to the document root.
File(kind, root) == [kind |-> kind, root |-> root]
Missing == File("missing", None)
Unreadable == File("unreadable", None)
NotUtf8 == File("not_utf8", None)
BadSyntax == File("bad_syntax", None)
Doc(root) == File("doc", root)

\* Path(path).read_text(encoding="utf-8"): the text, which the model keeps as
\* the file it came from, or the exception raised.
read_text(f) ==
    CASE f.kind = "missing" -> Exc("FileNotFoundError")
      [] f.kind = "unreadable" -> Exc("OSError")
      [] f.kind = "not_utf8" -> Exc("UnicodeDecodeError")
      [] OTHER -> <<"text", f>>

\* yaml_safe_load(text): yaml.safe_load(text) or {}
yaml_safe_load(text) ==
    IF text[2].kind = "bad_syntax" THEN Exc("YAMLError")
    ELSE Or(text[2].root, EmptyDict)

load_yaml_mapping(f) ==
    LET route == read_text(f)
    IN  IF IsExc(route) THEN route
        ELSE LET data == yaml_safe_load(route)
             IN  IF IsExc(data) THEN data
                 ELSE IF ~IsDict(data) THEN ValueError
                 ELSE data

load_yaml_sequence(f) ==
    LET route == read_text(f)
    IN  IF IsExc(route) THEN route
        ELSE LET data == yaml_safe_load(route)
             IN  IF IsExc(data) THEN data
                 ELSE IF ~IsList(data) THEN ValueError
                 ELSE data

\* LoadError(kind, detail); the detail text is left out.
LoadError(kind) == <<"LoadError", kind>>

\* A Python tuple (a, b).
Pair(a, b) == <<"tuple", <<a, b>>>>

\* json.loads(text): the document, or JSONDecodeError.
json_loads(text) ==
    IF text[2].kind = "bad_syntax" THEN Exc("JSONDecodeError") ELSE text[2].root

\* load_json: `except OSError` around the read, `except json.JSONDecodeError`
\* around the parse; any other exception leaves the function.
load_json(f) ==
    IF f.kind = "missing" THEN Pair(None, LoadError("not_found"))
    ELSE LET text == read_text(f)
         IN  IF text = Exc("OSError") THEN Pair(None, LoadError("io_error"))
             ELSE IF IsExc(text) THEN text
             ELSE IF json_loads(text) = Exc("JSONDecodeError")
             THEN Pair(None, LoadError("invalid_json"))
             ELSE Pair(json_loads(text), None)

-----------------------------------------------------------------------------
(* The response models (pydantic) and their validation *)

\* Field types.
TStr == <<"str">>
TAny == <<"any">>
TBool == <<"bool">>
TOpt(ty) == <<"opt", ty>>
TList(ty) == <<"list", ty>>
TDict(ty) == <<"dict", ty>>
TModel(name) == <<"model", name>>

\* A field without a default is required; Default(d) is an optional one.
Required == <<"required">>
Default(d) == <<"default", d>>
Field(name, ty, dflt) == [name |-> name, ty |-> ty, dflt |-> dflt]

ValidationError == Exc("ValidationError")

\* SolutionCodeExample(): the default of SolutionDetails' two code examples.
SolutionCodeExampleDefault ==
    Obj(<< <<"description", None>>, <<"text", None>> >>)

\* The declared fields of each model, in declaration order.
ModelFields(name) ==
    CASE name = "RequirementLang" ->
            << Field("title", TStr, Required), Field("summary", TStr, Required),
               Field("description", TStr, Required) >>
      [] name = "RequirementOut" ->
            << Field("id", TStr, Required),
               Field("category", TOpt(TStr), Required),
               Field("en", TOpt(TModel("RequirementLang")), Default(None)),
               Field("es", TOpt(TModel("RequirementLang")), Default(None)),
               Field("supported_in", TOpt(TDict(TOpt(TBool))), Required),
               Field("references", TList(TStr), Required),
               Field("metadata", TDict(TAny), Required),
               Field("last_update_time", TOpt(TStr), Required) >>
      [] name = "ComplianceDefinition" ->
            << Field("id", TStr, Required), Field("title", TStr, Required),
               Field("link", TOpt(TStr), Default(None)) >>
      [] name = "ComplianceLang" ->
            << Field("summary", TOpt(TStr), Default(None)) >>
      [] name = "ComplianceOut" ->
            << Field("id", TStr, Required),
               Field("title", TStr, Required),
               Field("en", TOpt(TModel("ComplianceLang")), Default(None)),
               Field("es", TOpt(TModel("ComplianceLang")), Default(None)),
               Field("definitions", TList(TModel("ComplianceDefinition")), Required),
               Field("metadata", TDict(TAny), Required),
               Field("last_update_time", TOpt(TStr), Required) >>
      [] name = "VulnerabilityLang" ->
            [i \in 1..Len(LangFields) |-> Field(LangFields[i], TStr, Required)]
      [] name = "VulnerabilityExamples" ->
            << Field("non_compliant", TOpt(TStr), Default(None)),
               Field("compliant", TOpt(TStr), Default(None)) >>
      [] name = "VulnerabilityScoreBase" ->
            [i \in 1..Len(ScoreBaseFields) |->
                Field(ScoreBaseFields[i], TOpt(TStr), Default(None))]
      [] name = "VulnerabilityScoreTemporal" ->
            [i \in 1..Len(ScoreTemporalFields) |->
                Field(ScoreTemporalFields[i], TOpt(TStr), Default(None))]
      [] name = "VulnerabilityScore" ->
            << Field("base", TOpt(TModel("VulnerabilityScoreBase")), Default(None)),
               Field("temporal", TOpt(TModel("VulnerabilityScoreTemporal")),
                     Default(None)) >>
      [] name = "VulnerabilityScoreV4Base" ->
            [i \in 1..Len(Score4BaseFields) |->
                Field(Score4BaseFields[i], TOpt(TStr), Default(None))]
      [] name = "VulnerabilityScoreV4Threat" ->
            << Field("exploit_maturity", TOpt(TStr), Default(None)) >>
      [] name = "VulnerabilityScoreV4" ->
            << Field("base", TOpt(TModel("VulnerabilityScoreV4Base")), Default(None)),
               Field("threat", TOpt(TModel("VulnerabilityScoreV4Threat")),
                     Default(None)) >>
      [] name = "VulnerabilityOut" ->
            << Field("id", TStr, Required),
               Field("category", TOpt(TStr), Required),
               Field("en", TOpt(TModel("VulnerabilityLang")), Default(None)),
               Field("es", TOpt(TModel("VulnerabilityLang")), Default(None)),
               Field("examples", TOpt(TModel("VulnerabilityExamples")), Default(None)),
               Field("remediation_time", TOpt(TStr), Default(None)),
               Field("score", TOpt(TModel("VulnerabilityScore")), Default(None)),
               Field("score_v4", TOpt(TModel("VulnerabilityScoreV4")), Default(None)),
               Field("requirements", TList(TStr), Required),
               Field("metadata", TDict(TAny), Required),
               Field("last_update_time", TOpt(TStr), Required) >>
      [] name = "SolutionCodeExample" ->
            << Field("description", TOpt(TStr), Default(None)),
               Field("text", TOpt(TStr), Default(None)) >>
      [] name = "SolutionDetails" ->
            << Field("language", TOpt(TStr), Default(None)),
               Field("insecure_code_example", TModel("SolutionCodeExample"),
                     Default(SolutionCodeExampleDefault)),
               Field("secure_code_example", TModel("SolutionCodeExample"),
                     Default(SolutionCodeExampleDefault)),
               Field("steps", TList(TStr), Default(EmptyList)) >>
      [] name = "SolutionOut" ->
            << Field("vulnerability_id", TStr, Required),
               Field("title", TStr, Required),
               Field("context", TList(TStr), Required),
               Field("need", TStr, Required),
               Field("solution", TModel("SolutionDetails"), Required),
               Field("last_update_time", TOpt(TStr), Default(None)) >>

\* What a bool field makes of x: a bool, the integers 0 and 1 and the usual
\* spellings of true and false are accepted and become a bool.
CoerceBool(x) ==
    CASE x[1] = "bool" -> x
      [] x[1] = "int" /\ x[2] \in {0, 1} -> BoolV(x[2] = 1)
      [] x[1] = "str" /\ x[2] \in {"1", "on", "t", "true", "y", "yes"} -> BoolV(TRUE)
      [] x[1] = "str" /\ x[2] \in {"0", "off", "f", "false", "n", "no"} -> BoolV(FALSE)
      [] OTHER -> ValidationError

\* validate_python followed by model_dump, for a value x of declared type ty:
\* the dumped value (a model dumps to a mapping of exactly its declared
\* fields, undeclared keys of the input dropped, missing optional ones at
\* their default), or ValidationError somewhere inside it.
RECURSIVE Dump(_, _)
Dump(ty, x) ==
    CASE ty[1] = "any" -> x
      [] ty[1] = "str" -> IF x[1] = "str" THEN x ELSE ValidationError
      [] ty[1] = "bool" -> CoerceBool(x)
      [] ty[1] = "opt" -> IF IsNone(x) THEN x ELSE Dump(ty[2], x)
      [] ty[1] = "list" ->
            IF IsList(x) THEN ListV([i \in 1..Len(x[2]) |-> Dump(ty[2], x[2][i])])
            ELSE ValidationError
      [] ty[1] = "dict" ->
            IF IsDict(x)
            THEN DictV([i \in 1..Len(x[2]) |->
                          <<IF x[2][i][1][1] = "str" THEN x[2][i][1] ELSE ValidationError,
                            Dump(ty[2], x[2][i][2])>>])
            ELSE ValidationError
      [] ty[1] = "model" ->
            IF IsDict(x)
            THEN LET fs == ModelFields(ty[2])
                 IN  Obj([i \in 1..Len(fs) |->
                            <<fs[i].name,
                              IF HasKey(x, fs[i].name)
                              THEN Dump(fs[i].ty, Get(x, fs[i].name))
                              ELSE IF fs[i].dflt[1] = "required" THEN ValidationError
                              ELSE fs[i].dflt[2]>>])
            ELSE ValidationError

\* [m.model_dump() for m in adapter.validate_python(data)] for the adapter
\* TypeAdapter(list[model]): the dumped list, or ValidationError.
ValidateAndDump(model, data) ==
    CHOOSE validated \in {IF HasExc(d) THEN ValidationError ELSE d :
                             d \in {Dump(TList(TModel(model)), data)}} : TRUE

-----------------------------------------------------------------------------
(* Inputs of the normalization core *)

\* How many fields of a template record an input may replace or drop.
MaxOverride == 1
\* How many entries a parsed document may hold.
MaxDoc == 2

Scalars ==
    {None, BoolV(FALSE), BoolV(TRUE), IntV(0), IntV(7), StrV(""), StrV("x")}

\* Values of any shape, as a loosely typed source may hold them in any field.
Generic ==
    Scalars \cup {EmptyList, ListV(<<StrV("a"), IntV(2)>>), EmptyDict,
                  Obj(<< <<"other", StrV("o")>> >>)}

\* Marks a field an input leaves out.
Absent == <<"absent", "">>

\* d with key k set to v (in place when present, appended otherwise), or
\* without key k when v is Absent.
Put(d, k, v) ==
    IF v = Absent
    THEN DictV(SelectSeq(d[2], LAMBDA e : e[1] # StrV(k)))
    ELSE IF HasKey(d, k)
    THEN DictV([i \in 1..Len(d[2]) |-> IF d[2][i][1] = StrV(k) THEN <<StrV(k), v>> ELSE d[2][i]])
    ELSE DictV(Append(d[2], <<StrV(k), v>>))

\* The ways to override at most MaxOverride of the fields (a sequence of field
\* names): sequences of <<index of the field, value>>, the indices increasing;
\* vals[k] are the values field k may take besides the generic ones.
Overrides(fields, vals) ==
    {s \in UNION {[1..m -> {<<i, x>> : i \in 1..Len(fields),
                                      x \in Generic \cup {Absent}
                                            \cup UNION {vals[k] : k \in DOMAIN vals}}] :
                    m \in 0..MaxOverride} :
        /\ \A j \in 1..Len(s) :
             s[j][2] \in Generic \cup {Absent} \cup vals[fields[s[j][1]]]
        /\ \A j \in 1..(Len(s) - 1) : s[j][1] < s[j + 1][1]}

\* base with the overrides ovs applied in turn.
RECURSIVE Apply(_, _, _)
Apply(base, fields, ovs) ==
    IF Len(ovs) = 0 THEN base
    ELSE Apply(Put(base, fields[Head(ovs)[1]], Head(ovs)[2]), fields, Tail(ovs))

\* The record with every field of fields null.
AllNull(fields) == DictV([i \in 1..Len(fields) |-> <<StrV(fields[i]), None>>])

Range(s) == {s[i] : i \in 1..Len(s)}

ReqFields ==
    <<"en", "es", "category", "supported_in", "references", "metadata",
      "last_update_time">>

FullReq ==
    Obj(<< <<"en", Obj(<< <<"title", StrV("T")>>, <<"summary", StrV("S")>>,
                          <<"description", StrV("D")>> >>)>>,
           <<"es", Obj(<< <<"title", StrV("Te")>>, <<"summary", StrV("Se")>>,
                          <<"description", StrV("De")>> >>)>>,
           <<"category", StrV("c")>>,
           <<"supported_in", Obj(<< <<"essential", BoolV(TRUE)>>,
                                    <<"advanced", BoolV(FALSE)>> >>)>>,
           <<"references", ListV(<<StrV("r1"), IntV(2)>>)>>,
           <<"metadata", Obj(<< <<"level", StrV("base")>> >>)>>,
           <<"last_update_time", StrV("2024")>> >>)

ReqLangVals ==
    {Obj(<< <<"title", StrV("T")>> >>),
     Obj(<< <<"title", None>>, <<"summary", IntV(3)>>, <<"extra", StrV("e")>> >>)}

ReqVals ==
    [k \in Range(ReqFields) |->
        CASE k \in {"en", "es"} -> ReqLangVals
          [] k = "supported_in" ->
                {Obj(<< <<"essential", BoolV(TRUE)>> >>),
                 Obj(<< <<"essential", None>>, <<"advanced", None>> >>),
                 Obj(<< <<"advanced", StrV("yes")>>, <<"premium", BoolV(TRUE)>> >>)}
          [] OTHER -> {}]

ReqBases == {FullReq, EmptyDict, AllNull(ReqFields)}

CompFields ==
    <<"title", "en", "es", "definitions", "metadata", "last_update_time">>

FullComp ==
    Obj(<< <<"title", StrV("CAPEC")>>,
           <<"en", Obj(<< <<"summary", StrV("S")>> >>)>>,
           <<"es", Obj(<< <<"summary", StrV("Se")>> >>)>>,
           <<"definitions",
             Obj(<< <<"D1", Obj(<< <<"title", StrV("T")>>, <<"link", StrV("L")>> >>)>>,
                    <<"D2", StrV("bare")>> >>)>>,
           <<"metadata", Obj(<< <<"level", StrV("base")>> >>)>>,
           <<"last_update_time", StrV("2024")>> >>)

CompVals ==
    [k \in Range(CompFields) |->
        CASE k \in {"en", "es"} -> {Obj(<< <<"summary", None>> >>)}
          [] k = "definitions" ->
                {Obj(<< <<"D2", IntV(0)>>, <<"D1", Obj(<< <<"title", StrV("T")>> >>)>> >>),
                 Obj(<< <<"D1", Obj(<< <<"link", IntV(4)>> >>)>> >>),
                 DictV(<< <<IntV(7), None>>,
                          <<StrV("D3"), Obj(<< <<"title", None>>, <<"link", None>> >>)>>,
                          <<StrV("D4"), ListV(<<IntV(1)>>)>> >>)}
          [] OTHER -> {}]

CompBases == {FullComp, EmptyDict, AllNull(CompFields)}

VulnFields ==
    <<"en", "es", "category", "examples", "remediation_time", "score",
      "score_v4", "requirements", "metadata", "last_update_time">>

FullVuln ==
    Obj(<< <<"en", Obj(<< <<"title", StrV("T")>>, <<"description", StrV("D")>>,
                          <<"impact", StrV("I")>>, <<"recommendation", StrV("R")>>,
                          <<"threat", StrV("H")>> >>)>>,
           <<"es", Obj(<< <<"title", StrV("Te")>>, <<"description", StrV("De")>>,
                          <<"impact", StrV("Ie")>>, <<"recommendation", StrV("Re")>>,
                          <<"threat", StrV("He")>> >>)>>,
           <<"category", StrV("c")>>,
           <<"examples", Obj(<< <<"non_compliant", StrV("bad")>>,
                                <<"compliant", StrV("good")>> >>)>>,
           <<"remediation_time", IntV(15)>>,
           <<"score",
             Obj(<< <<"base", Obj(<< <<"attack_vector", StrV("N")>>,
                                     <<"scope", StrV("U")>> >>)>>,
                    <<"temporal", Obj(<< <<"report_confidence", StrV("C")>> >>)>> >>)>>,
           <<"score_v4",
             Obj(<< <<"base", Obj(<< <<"attack_vector", StrV("N")>>,
                                     <<"integrity_si", StrV("L")>> >>)>>,
                    <<"threat", Obj(<< <<"exploit_maturity", StrV("P")>> >>)>> >>)>>,
           <<"requirements", ListV(<<StrV("266"), IntV(173)>>)>>,
           <<"metadata",
             Obj(<< <<"en", Obj(<< <<"details", StrV("dt")>>, <<"more", StrV("m")>> >>)>>,
                    <<"es", Obj(<< <<"details", StrV("dte")>> >>)>> >>)>>,
           <<"last_update_time", StrV("2024")>> >>)

VulnVals ==
    [k \in Range(VulnFields) |->
        CASE k \in {"en", "es"} ->
                {Obj(<< <<"title", None>>, <<"impact", IntV(3)>> >>)}
          [] k = "examples" ->
                {Obj(<< <<"non_compliant", StrV("bad")>> >>),
                 Obj(<< <<"non_compliant", IntV(0)>>, <<"compliant", StrV("")>> >>),
                 Obj(<< <<"non_compliant", IntV(0)>>, <<"compliant", StrV("good")>>,
                        <<"note", StrV("n")>> >>)}
          [] k = "score" ->
                {Obj(<< <<"base", Obj(<< <<"attack_vector", StrV("N")>> >>)>> >>),
                 Obj(<< <<"base", EmptyDict>>, <<"temporal", None>> >>),
                 Obj(<< <<"temporal", Obj(<< <<"remediation_level", None>> >>)>> >>),
                 Obj(<< <<"base", StrV("x")>> >>),
                 Obj(<< <<"temporal", ListV(<<IntV(1)>>)>> >>),
                 Obj(<< <<"base", IntV(0)>>,
                        <<"temporal", Obj(<< <<"report_confidence", BoolV(FALSE)>>,
                                             <<"extra", StrV("e")>> >>)>> >>)}
          [] k = "score_v4" ->
                {Obj(<< <<"threat", Obj(<< <<"exploit_maturity", IntV(0)>> >>)>> >>),
                 Obj(<< <<"base", EmptyDict>>, <<"threat", EmptyDict>> >>),
                 Obj(<< <<"base", Obj(<< <<"scope", StrV("U")>> >>)>> >>),
                 Obj(<< <<"threat", IntV(7)>> >>)}
          [] k = "metadata" ->
                {Obj(<< <<"en", None>> >>),
                 Obj(<< <<"en", Obj(<< <<"details", IntV(0)>> >>)>> >>),
                 Obj(<< <<"en", StrV("x")>> >>)}
          [] OTHER -> {}]

VulnBases == {FullVuln, EmptyDict, AllNull(VulnFields)}

SolFields ==
    <<"vulnerability_id", "title", "context", "need", "solution", "last_update_time">>

FullSol ==
    Obj(<< <<"vulnerability_id", StrV("V1")>>,
           <<"title", StrV("T")>>,
           <<"context", ListV(<<StrV("ctx")>>)>>,
           <<"need", StrV("N")>>,
           <<"solution",
             Obj(<< <<"language", StrV("python")>>,
                    <<"insecure_code_example",
                      Obj(<< <<"description", StrV("d")>>, <<"text", StrV("bad()")>> >>)>>,
                    <<"secure_code_example",
                      Obj(<< <<"description", StrV("d")>>, <<"text", StrV("good()")>> >>)>>,
                    <<"steps", ListV(<<StrV("one"), StrV("two")>>)>> >>)>>,
           <<"last_update_time", StrV("2024")>> >>)

SolVals ==
    [k \in Range(SolFields) |->
        CASE k = "solution" ->
                {Obj(<< <<"language", StrV("python")>> >>),
                 Obj(<< <<"steps", StrV("one")>>,
                        <<"secure_code_example", Obj(<< <<"text", IntV(1)>> >>)>> >>),
                 Obj(<< <<"language", IntV(0)>>, <<"insecure_code_example", None>> >>),
                 Obj(<< <<"insecure_code_example", StrV("x")>> >>)}
          [] OTHER -> {}]

SolBases == {FullSol, EmptyDict, AllNull(SolFields)}

\* Record ids and document keys: strings, and the integers YAML reads bare
\* numeric keys as.
Rids == {StrV("R1"), IntV(5)}
DocKeys == {StrV("B"), StrV("A"), IntV(1)}

\* Entries of a document root: records of each family, well formed and not,
\* and values that are no mapping.
DocVals ==
    {EmptyDict, FullReq, FullSol, Obj(<< <<"en", StrV("x")>>, <<"solution", IntV(7)>> >>),
     None, StrV("x"), ListV(<<EmptyDict>>)}

\* The sequences over S of length at most n.
SeqsUpTo(S, n) == UNION {[1..m -> S] : m \in 0..n}

\* Mapping roots: entries in any order, the keys distinct.
DocMaps ==
    {DictV([i \in 1..Len(ks) |-> <<ks[i], vs[i]>>]) :
        <<ks, vs>> \in {p \in SeqsUpTo(DocKeys, MaxDoc) \X SeqsUpTo(DocVals, MaxDoc) :
                          /\ Len(p[1]) = Len(p[2])
                          /\ \A i, j \in 1..Len(p[1]) : p[1][i] = p[1][j] => i = j}}

\* Sequence roots.
DocLists == {ListV(s) : s \in SeqsUpTo(DocVals, MaxDoc)}

\* Roots of the wrong kind for a parser.
DocOthers == {None, StrV("x"), IntV(0)}

-----------------------------------------------------------------------------
(* One call of the normalization core per behaviour *)

\* No serving process: the state of the serving layer's variables throughout
\* the behaviours of the normalization core.
ServerOff ==
    /\ phase = "off"
    /\ disk = <<>>
    /\ disable_eager = FALSE
    /\ validated_cache = <<>>
    /\ solutions_validated_cache = <<>>
    /\ request = <<>>
    /\ call = <<>>
    /\ response = <<>>

Init ==
    /\ op = "init"
    /\ key = None
    /\ arg = None
    /\ arg_after = None
    /\ out = None
    /\ ServerOff

NormalizeRequirements ==
    /\ op = "init"
    /\ UNCHANGED server
    /\ \E rid \in Rids, base \in ReqBases, ovs \in Overrides(ReqFields, ReqVals) :
         LET raw == Apply(base, ReqFields, ovs)
         IN  /\ op' = "normalize_requirements"
             /\ key' = rid
             /\ arg' = raw
             /\ arg_after' = raw_after(raw)
             /\ out' = normalize_requirements(rid, raw)

NormalizeCompliance ==
    /\ op = "init"
    /\ UNCHANGED server
    /\ \E name \in Rids, base \in CompBases, ovs \in Overrides(CompFields, CompVals) :
         LET raw == Apply(base, CompFields, ovs)
         IN  /\ op' = "normalize_compliance"
             /\ key' = name
             /\ arg' = raw
             /\ arg_after' = raw_after(raw)
             /\ out' = normalize_compliance(name, raw)

NormalizeVulnerability ==
    /\ op = "init"
    /\ UNCHANGED server
    /\ \E rid \in Rids, base \in VulnBases, ovs \in Overrides(VulnFields, VulnVals) :
         LET raw == Apply(base, VulnFields, ovs)
         IN  /\ op' = "normalize_vulnerability"
             /\ key' = rid
             /\ arg' = raw
             /\ arg_after' = raw_after(raw)
             /\ out' = normalize_vulnerability(rid, raw)

NormalizeSolutions ==
    /\ op = "init"
    /\ UNCHANGED server
    /\ \E base \in SolBases, ovs \in Overrides(SolFields, SolVals) :
         LET raw == Apply(base, SolFields, ovs)
         IN  /\ op' = "normalize_solutions"
             /\ key' = None
             /\ arg' = raw
             /\ arg_after' = raw_after(raw)
             /\ out' = normalize_solutions(raw)

ParseRequirements ==
    /\ op = "init"
    /\ UNCHANGED server
    /\ \E doc \in DocMaps :
         /\ op' = "parse_requirements"
         /\ key' = None
         /\ arg' = doc
         /\ arg_after' = doc
         /\ out' = parse_requirements(doc)

ParseCompliance ==
    /\ op = "init"
    /\ UNCHANGED server
    /\ \E doc \in DocMaps :
         /\ op' = "parse_compliance"
         /\ key' = None
         /\ arg' = doc
         /\ arg_after' = doc
         /\ out' = parse_compliance(doc)

ParseVulnerabilities ==
    /\ op = "init"
    /\ UNCHANGED server
    /\ \E doc \in DocMaps :
         /\ op' = "parse_vulnerabilities"
         /\ key' = None
         /\ arg' = doc
         /\ arg_after' = doc
         /\ out' = parse_vulnerabilities(doc)

ParseSolutions ==
    /\ op = "init"
    /\ UNCHANGED server
    /\ \E doc \in DocLists \cup DocMaps \cup DocOthers :
         /\ op' = "parse_solutions"
         /\ key' = None
         /\ arg' = doc
         /\ arg_after' = doc
         /\ out' = parse_solutions(doc)

\* Arguments of ensure_list_of_str: values of any shape, and the lists of at
\* most MaxDoc scalars or of nested containers.
ListArgs ==
    Generic \cup {ListV(s) : s \in SeqsUpTo(Scalars, MaxDoc)}
            \cup {ListV(<<ListV(<<StrV("a")>>), EmptyDict>>)}

EnsureListOfStr ==
    /\ op = "init"
    /\ UNCHANGED server
    /\ \E x \in ListArgs :
         /\ op' = "ensure_list_of_str"
         /\ key' = None
         /\ arg' = x
         /\ arg_after' = x
         /\ out' = ensure_list_of_str(x)

\* The document roots a file may hold.
Roots == Generic \cup DocLists \cup DocMaps

Files == {Missing, Unreadable, NotUtf8, BadSyntax} \cup {Doc(r) : r \in Roots}

LoadYamlMapping ==
    /\ op = "init"
    /\ UNCHANGED server
    /\ \E f \in Files :
         /\ op' = "load_yaml_mapping"
         /\ key' = None
         /\ arg' = f
         /\ arg_after' = f
         /\ out' = load_yaml_mapping(f)

LoadYamlSequence ==
    /\ op = "init"
    /\ UNCHANGED server
    /\ \E f \in Files :
         /\ op' = "load_yaml_sequence"
         /\ key' = None
         /\ arg' = f
         /\ arg_after' = f
         /\ out' = load_yaml_sequence(f)

LoadJson ==
    /\ op = "init"
    /\ UNCHANGED server
    /\ \E f \in Files :
         /\ op' = "load_json"
         /\ key' = None
         /\ arg' = f
         /\ arg_after' = f
         /\ out' = load_json(f)

Next ==
    \/ NormalizeRequirements
    \/ NormalizeCompliance
    \/ NormalizeVulnerability
    \/ NormalizeSolutions
    \/ ParseRequirements
    \/ ParseCompliance
    \/ ParseVulnerabilities
    \/ ParseSolutions
    \/ LoadYamlMapping
    \/ LoadYamlSequence
    \/ LoadJson
    \/ EnsureListOfStr

Spec == Init /\ [][Next]_vars

-----------------------------------------------------------------------------
(* The serving layer: lists as objects *)

\* A list the server holds or returns is an object: `id` tells one object from
\* another, and each item is an object of its own.  An id is <<site, name, i>>:
\* the place of the code that created the object, the dataset it was created
\* for, and the item's position (0 for the list itself).  The objects of a
\* request other than the ones a cache keeps are gone when the next request
\* starts, so their ids are free again.
ListObj(site, name, vals) ==
    [id |-> <<site, name, 0>>,
     items |-> [i \in 1..Len(vals) |-> [id |-> <<site, name, i>>, val |-> vals[i]]]]

\* No list: a key a cache does not hold, the body of an error.
NoList == [id |-> <<"", "", 0>>, items |-> <<>>]

\* The Python value of a list object.
Values(l) == ListV([i \in 1..Len(l.items) |-> l.items[i].val])

\* The ids of a list object's items.
ItemIds(l) == {l.items[i].id : i \in 1..Len(l.items)}

\* [dict(item) for item in cached]: a new list of new mappings.
Copy(cached, name) == ListObj("copy", name, Values(cached)[2])

\* _filter_lang(items, lang).  `ret` is the list returned, `after` the list
\* passed in as the call leaves it, `exc` the exception raised ("" if none:
\* it.items() raises AttributeError on an item that is not a mapping).
_filter_lang_InPlace(items, lang) ==
    LET other == IF lang = "en" THEN "es" ELSE "en"
        dropped == [items EXCEPT !.items =
                       [i \in 1..Len(items.items) |->
                           [items.items[i] EXCEPT !.val = Put(@, other, Absent)]]]
    IN  IF lang \notin {"en", "es"}
        THEN [ret |-> items, after |-> items, exc |-> ""]
        ELSE IF \E i \in 1..Len(items.items) : ~IsDict(items.items[i].val)
        THEN [ret |-> NoList, after |-> items, exc |-> "AttributeError"]
        ELSE [ret |-> dropped, after |-> dropped, exc |-> ""]

_filter_lang(items, lang) ==
    LET other == IF lang = "en" THEN "es" ELSE "en"
    IN  IF lang \notin {"en", "es", "both"}
        THEN [ret |-> items, after |-> items, exc |-> ""]
        ELSE IF lang = "both"
        THEN [ret |-> items, after |-> items, exc |-> ""]
        ELSE IF \E i \in 1..Len(items.items) : ~IsDict(items.items[i].val)
        THEN [ret |-> NoList, after |-> items, exc |-> "AttributeError"]
        ELSE [ret |-> ListObj("filtered", items.id[2],
                              [i \in 1..Len(items.items) |->
                                  Put(items.items[i].val, other, Absent)]),
              after |-> items, exc |-> ""]

\* What a handler, or a function it calls, comes to: the list it returns
\* (status 200), the HTTPException it raises, or another exception that
\* leaves it, which the framework answers with status 500.  `sent` is the
\* content of the response once the framework has serialized the list.
Returned(l) == [status |-> 200, body |-> l, exc |-> "", sent |-> None]
HTTPException(status_code) ==
    [status |-> status_code, body |-> NoList, exc |-> "HTTPException", sent |-> None]
Raised(name) == [status |-> 500, body |-> NoList, exc |-> name, sent |-> None]

-----------------------------------------------------------------------------
(* The serving layer: the data directories *)

CoreFiles == {"requirements.json", "compliance.json", "vulnerabilities.json"}

\* core_adapters: the model each core file is validated against.
core_adapters(fname) ==
    CASE fname = "requirements.json" -> "RequirementOut"
      [] fname = "compliance.json" -> "ComplianceOut"
      [] fname = "vulnerabilities.json" -> "VulnerabilityOut"

\* The dataset names requested of /api/solutions, and the files of the
\* solutions directory.
SolutionNames == {"python", "python.json", "ruby"}
SolutionFiles == {"python.json", "ruby.json"}

\* f"{name}.json" if not name.endswith(".json") else name
SolutionFile(name) ==
    CASE name = "python" -> "python.json"
      [] name = "python.json" -> "python.json"
      [] name = "ruby" -> "ruby.json"

\* Raw YAML records, and the canonical records the normalizers make of
\* them, written out in full (AsParsed below ties the two together).
RawRequirement ==
    Obj(<< <<"en", Obj(<< <<"title", StrV("T")>>, <<"summary", StrV("S")>>,
                          <<"description", StrV("D")>> >>)>>,
           <<"es", Obj(<< <<"title", StrV("Te")>>, <<"summary", StrV("Se")>>,
                          <<"description", StrV("De")>> >>)>>,
           <<"category", StrV("c")>>,
           <<"supported_in", Obj(<< <<"essential", BoolV(TRUE)>> >>)>>,
           <<"references", ListV(<<StrV("r1")>>)>>,
           <<"metadata", Obj(<< <<"level", StrV("base")>> >>)>>,
           <<"last_update_time", StrV("2024")>> >>)

Requirement(rid) ==
    Obj(<< <<"id", StrV(rid)>>,
           <<"en", Obj(<< <<"title", StrV("T")>>, <<"summary", StrV("S")>>,
                          <<"description", StrV("D")>> >>)>>,
           <<"es", Obj(<< <<"title", StrV("Te")>>, <<"summary", StrV("Se")>>,
                          <<"description", StrV("De")>> >>)>>,
           <<"category", StrV("c")>>,
           <<"supported_in", Obj(<< <<"essential", BoolV(TRUE)>>,
                                    <<"advanced", None>> >>)>>,
           <<"references", ListV(<<StrV("r1")>>)>>,
           <<"metadata", Obj(<< <<"level", StrV("base")>> >>)>>,
           <<"last_update_time", StrV("2024")>> >>)

\* The canonical record of an empty raw record.
BlankRequirement(rid) ==
    Obj(<< <<"id", StrV(rid)>>,
           <<"en", Obj(<< <<"title", StrV("")>>, <<"summary", StrV("")>>,
                          <<"description", StrV("")>> >>)>>,
           <<"es", Obj(<< <<"title", StrV("")>>, <<"summary", StrV("")>>,
                          <<"description", StrV("")>> >>)>>,
           <<"category", StrV("")>>,
           <<"supported_in", None>>,
           <<"references", EmptyList>>,
           <<"metadata", EmptyDict>>,
           <<"last_update_time", None>> >>)

RawCompliance ==
    Obj(<< <<"title", StrV("CAPEC")>>,
           <<"en", Obj(<< <<"summary", StrV("S")>> >>)>>,
           <<"es", Obj(<< <<"summary", StrV("Se")>> >>)>>,
           <<"definitions",
             Obj(<< <<"D1", Obj(<< <<"title", StrV("T")>>, <<"link", StrV("L")>> >>)>> >>)>>,
           <<"last_update_time", StrV("2024")>> >>)

Compliance(name) ==
    Obj(<< <<"id", StrV(name)>>,
           <<"title", StrV("CAPEC")>>,
           <<"en_summary", StrV("S")>>,
           <<"es_summary", StrV("Se")>>,
           <<"definitions",
             ListV(<<Obj(<< <<"id", StrV("D1")>>, <<"title", StrV("T")>>,
                            <<"link", StrV("L")>> >>)>>)>>,
           <<"metadata", EmptyDict>>,
           <<"last_update_time", StrV("2024")>> >>)

RawVulnerability ==
    Obj(<< <<"en", Obj(<< <<"title", StrV("T")>> >>)>>,
           <<"es", Obj(<< <<"title", StrV("Te")>> >>)>>,
           <<"category", StrV("c")>>,
           <<"requirements", ListV(<<StrV("R1")>>)>> >>)

Vulnerability(rid) ==
    Obj(<< <<"id", StrV(rid)>>,
           <<"en", Obj(<< <<"title", StrV("T")>>, <<"description", StrV("")>>,
                          <<"impact", StrV("")>>, <<"recommendation", StrV("")>>,
                          <<"threat", StrV("")>> >>)>>,
           <<"es", Obj(<< <<"title", StrV("Te")>>, <<"description", StrV("")>>,
                          <<"impact", StrV("")>>, <<"recommendation", StrV("")>>,
                          <<"threat", StrV("")>> >>)>>,
           <<"category", StrV("c")>>,
           <<"examples", None>>,
           <<"remediation_time", None>>,
           <<"score", None>>,
           <<"score_v4", None>>,
           <<"requirements", ListV(<<StrV("R1")>>)>>,
           <<"metadata", Obj(<< <<"en", Obj(<< <<"details", StrV("")>> >>)>> >>)>>,
           <<"last_update_time", None>> >>)

RawSolution(vulnerability_id) ==
    Obj(<< <<"vulnerability_id", StrV(vulnerability_id)>>,
           <<"title", StrV("T")>>,
           <<"context", ListV(<<StrV("ctx")>>)>>,
           <<"need", StrV("N")>>,
           <<"solution", Obj(<< <<"language", StrV("python")>>,
                                <<"steps", ListV(<<StrV("s1")>>)>> >>)>>,
           <<"last_update_time", StrV("2024")>> >>)

Solution(vulnerability_id) ==
    Obj(<< <<"vulnerability_id", StrV(vulnerability_id)>>,
           <<"title", StrV("T")>>,
           <<"context", ListV(<<StrV("ctx")>>)>>,
           <<"need", StrV("N")>>,
           <<"solution",
             Obj(<< <<"language", StrV("python")>>,
                    <<"insecure_code_example",
                      Obj(<< <<"description", StrV("")>>, <<"text", StrV("")>> >>)>>,
                    <<"secure_code_example",
                      Obj(<< <<"description", StrV("")>>, <<"text", StrV("")>> >>)>>,
                    <<"steps", ListV(<<StrV("s1")>>)>> >>)>>,
           <<"last_update_time", StrV("2024")>> >>)

\* The records above are what the normalizers return.
AsParsed ==
    /\ Requirement("R1") = normalize_requirements(StrV("R1"), RawRequirement)
    /\ BlankRequirement("R2") = normalize_requirements(StrV("R2"), EmptyDict)
    /\ Compliance("C1") = normalize_compliance(StrV("C1"), RawCompliance)
    /\ Vulnerability("V1") = normalize_vulnerability(StrV("V1"), RawVulnerability)
    /\ Solution("V1") = normalize_solutions(RawSolution("V1"))

\* The lists run_parse.py writes, as the parsers return them.
ReqList == ListV(<<Requirement("R1"), BlankRequirement("R2")>>)
ReqList2 == ListV(<<Requirement("R3")>>)
CompList == ListV(<<Compliance("C1")>>)
VulnList == ListV(<<Vulnerability("V1")>>)
SolList == ListV(<<Solution("V1")>>)
SolList2 == ListV(<<Solution("V1"), Solution("V2")>>)

\* A list the response models reject: an item without the required fields,
\* an item that is no mapping.
BadList == ListV(<<EmptyDict, IntV(5)>>)

\* What each file may hold.  compliance.json and vulnerabilities.json stay
\* as written, and only requirements.json has a legacy copy in the
\* repository root; requirements.json and python.json go through the states
\* a file can be in.
RequirementsOptions ==
    {Missing, Unreadable, NotUtf8, BadSyntax, Doc(EmptyDict), Doc(ReqList),
     Doc(ReqList2), Doc(BadList)}
LegacyOptions == {Missing, Doc(ReqList)}
PythonOptions ==
    {Missing, Unreadable, NotUtf8, BadSyntax, Doc(EmptyDict), Doc(SolList),
     Doc(SolList2), Doc(BadList)}

\* core_dir, repo_root and solutions_dir with the files in them; a directory
\* that does not exist holds no file.
Disk(requirements, legacy, dir_exists, python) ==
    [core_dir |->
        [f \in CoreFiles |->
            CASE f = "requirements.json" -> requirements
              [] f = "compliance.json" -> Doc(CompList)
              [] f = "vulnerabilities.json" -> Doc(VulnList)],
     repo_root |->
        [f \in CoreFiles |-> IF f = "requirements.json" THEN legacy ELSE Missing],
     solutions_dir_exists |-> dir_exists,
     solutions_dir |->
        [f \in SolutionFiles |->
            IF f = "python.json" /\ dir_exists THEN python ELSE Missing]]

Disks ==
    {Disk(r, l, e, p) :
        r \in RequirementsOptions, l \in LegacyOptions, e \in BOOLEAN,
        p \in PythonOptions}

\* path.exists()
exists(f) == f.kind # "missing"

\* The lists a file may hold, and the models they are validated against.
Documents ==
    {ReqList, ReqList2, CompList, VulnList, SolList, SolList2, BadList}
Adapters == {"RequirementOut", "ComplianceOut", "VulnerabilityOut", "SolutionOut"}

\* [m.model_dump() for m in adapter.validate_python(data)], tabulated over
\* the lists above.
validate_python ==
    [model \in Adapters, data \in Documents |-> ValidateAndDump(model, data)]

-----------------------------------------------------------------------------
(* The serving layer: create_app and its handlers *)

NoRequest == [handler |-> "", name |-> "", lang |-> ""]
NoCall == [items |-> NoList, lang |-> "", ret |-> NoList, after |-> NoList, exc |-> ""]
NoResponse == [status |-> 0, body |-> NoList, exc |-> "", sent |-> None]
NoCache(files) == [f \in files |-> NoList]

\* The record of a call of _filter_lang.
FilterCall(items, lang) ==
    LET r == _filter_lang(items, lang)
    IN  [items |-> items, lang |-> lang, ret |-> r.ret, after |-> r.after,
         exc |-> r.exc]

\* One round of the eager validation loop of create_app: the entry stored in
\* validated_cache for fname (none when the file is absent), or the
\* exception that ends create_app.
eager_validation(fname) ==
    LET path == disk.core_dir[fname]
        r == load_json(path)
        data == r[2][1]
        err == r[2][2]
        validated == validate_python[core_adapters(fname), data]
    IN  IF ~exists(path) THEN Returned(NoList)
        ELSE IF IsExc(r) THEN Raised(r[2])
        ELSE IF err # None THEN Raised("RuntimeError")
        ELSE IF ~IsList(data) THEN Raised("RuntimeError")
        ELSE IF IsExc(validated) THEN Raised("RuntimeError")
        ELSE Returned(ListObj("eager", fname, validated[2]))

\* _load_list with every load error answered as a missing resource.
_load_list_AllNotFound(filename) ==
    LET primary == disk.core_dir[filename]
        path == IF exists(primary) THEN primary ELSE disk.repo_root[filename]
        r == load_json(path)
        data == r[2][1]
        err == r[2][2]
        validated == validate_python[core_adapters(filename), data]
    IN  IF validated_cache[filename] # NoList
        THEN Returned(Copy(validated_cache[filename], filename))
        ELSE IF IsExc(r) THEN Raised(r[2])
        ELSE IF err # None THEN HTTPException(404)
        ELSE IF ~IsList(data) THEN HTTPException(500)
        ELSE IF disable_eager
        THEN IF IsExc(validated) THEN HTTPException(500)
             ELSE Returned(ListObj("on_demand", filename, validated[2]))
        ELSE Returned(ListObj("json", filename, data[2]))

\* _load_list(filename)
_load_list(filename) ==
    LET primary == disk.core_dir[filename]
        path == IF exists(primary) THEN primary ELSE disk.repo_root[filename]
        r == load_json(path)
        data == r[2][1]
        err == r[2][2]
        validated == validate_python[core_adapters(filename), data]
    IN  IF validated_cache[filename] # NoList
        THEN Returned(Copy(validated_cache[filename], filename))
        ELSE IF IsExc(r) THEN Raised(r[2])
        ELSE IF err # None
        THEN IF err[2] = "not_found" THEN HTTPException(404) ELSE HTTPException(500)
        ELSE IF ~IsList(data) THEN HTTPException(500)
        ELSE IF disable_eager
        THEN IF IsExc(validated) THEN HTTPException(500)
             ELSE Returned(ListObj("on_demand", filename, validated[2]))
        ELSE Returned(ListObj("json", filename, data[2]))

\* The serving layer before create_app: files on disk, the environment set.
InitServe ==
    /\ AsParsed
    /\ op = "init"
    /\ key = None
    /\ arg = None
    /\ arg_after = None
    /\ out = None
    /\ phase = "off"
    /\ disk \in Disks
    /\ disable_eager \in BOOLEAN
    /\ validated_cache = NoCache(CoreFiles)
    /\ solutions_validated_cache = NoCache(SolutionFiles)
    /\ request = NoRequest
    /\ call = NoCall
    /\ response = NoResponse

\* create_app: the eager validation fills validated_cache, or ends the
\* start-up with an exception.
create_app ==
    /\ phase = "off"
    /\ LET entry == [f \in CoreFiles |->
                        IF disable_eager THEN Returned(NoList)
                        ELSE eager_validation(f)]
           started == \A f \in CoreFiles : entry[f].exc = ""
       IN  /\ phase' = IF started THEN "up" ELSE "crashed"
           /\ validated_cache' =
                 IF started THEN [f \in CoreFiles |-> entry[f].body]
                 ELSE NoCache(CoreFiles)
    /\ solutions_validated_cache' = NoCache(SolutionFiles)
    /\ request' = NoRequest
    /\ call' = NoCall
    /\ response' = NoResponse
    /\ UNCHANGED <<core, disk, disable_eager>>

\* The values a handler's `lang` parameter admits.
Langs == {"en", "es", "both"}

\* @app.get(..., response_model=list[Model]): the framework validates what
\* the handler returns against the model and sends the validated models
\* serialized, each with exactly its declared fields; a value the model
\* rejects is answered with status 500.
response_model(model, result) ==
    IF result.status # 200 THEN result
    ELSE CHOOSE r \in {IF IsExc(validated) THEN Raised("ResponseValidationError")
                       ELSE [result EXCEPT !.sent = validated] :
                          validated \in {ValidateAndDump(model, Values(result.body))}} :
            TRUE

\* The body of the three core handlers:
\* return _filter_lang(_load_list(filename), lang)
ApiList(handler, filename, lang) ==
    \E loaded \in {_load_list(filename)} :
       \E filtered \in {FilterCall(loaded.body, lang)} :
          /\ request' = [handler |-> handler, name |-> filename, lang |-> lang]
          /\ call' = IF loaded.exc = "" THEN filtered ELSE NoCall
          /\ \E result \in {IF loaded.exc # "" THEN loaded
                             ELSE IF filtered.exc # "" THEN Raised(filtered.exc)
                             ELSE Returned(filtered.ret)} :
                response' = response_model(core_adapters(filename), result)

api_requirements ==
    /\ phase = "up"
    /\ request = NoRequest
    /\ \E lang \in Langs : ApiList("api_requirements", "requirements.json", lang)
    /\ UNCHANGED <<core, phase, disk, disable_eager, validated_cache,
                   solutions_validated_cache>>

api_compliance ==
    /\ phase = "up"
    /\ request = NoRequest
    /\ \E lang \in Langs : ApiList("api_compliance", "compliance.json", lang)
    /\ UNCHANGED <<core, phase, disk, disable_eager, validated_cache,
                   solutions_validated_cache>>

api_vulnerabilities ==
    /\ phase = "up"
    /\ request = NoRequest
    /\ \E lang \in Langs : ApiList("api_vulnerabilities", "vulnerabilities.json", lang)
    /\ UNCHANGED <<core, phase, disk, disable_eager, validated_cache,
                   solutions_validated_cache>>

\* api_solutions(name): `served` is what the handler comes to, `stored` the
\* list it puts in solutions_validated_cache (none on every path but the
\* last).
solutions(name) ==
    LET fname == SolutionFile(name)
        path == disk.solutions_dir[fname]
        r == load_json(path)
        data == r[2][1]
        err == r[2][2]
        cache_key == fname
        validated == validate_python["SolutionOut", data]
        dumped == ListObj("dumped", cache_key, validated[2])
        Serve(result) == [served |-> result, stored |-> NoList]
    IN  IF ~disk.solutions_dir_exists THEN Serve(HTTPException(404))
        ELSE IF IsExc(r) THEN Serve(Raised(r[2]))
        ELSE IF err # None
        THEN IF err[2] = "not_found" THEN Serve(HTTPException(404))
             ELSE Serve(HTTPException(500))
        ELSE IF ~IsList(data) THEN Serve(HTTPException(500))
        ELSE IF solutions_validated_cache[cache_key] # NoList
        THEN Serve(Returned(Copy(solutions_validated_cache[cache_key], cache_key)))
        ELSE IF IsExc(validated) THEN Serve(HTTPException(500))
        ELSE [served |-> Returned(dumped), stored |-> dumped]

api_solutions ==
    /\ phase = "up"
    /\ request = NoRequest
    /\ \E name \in SolutionNames :
         \E r \in {solutions(name)} :
             /\ request' = [handler |-> "api_solutions", name |-> name, lang |-> ""]
             /\ response' = response_model("SolutionOut", r.served)
             /\ solutions_validated_cache' =
                   IF r.stored # NoList
                   THEN [solutions_validated_cache EXCEPT ![SolutionFile(name)] = r.stored]
                   ELSE solutions_validated_cache
    /\ call' = NoCall
    /\ UNCHANGED <<core, phase, disk, disable_eager, validated_cache>>

\* A direct call of _filter_lang, a function of the module, with any value
\* of lang; one call, made before the application is created.
FilterLang ==
    /\ phase = "off"
    /\ request = NoRequest
    /\ \E vals \in {ReqList, CompList, VulnList, SolList, BadList, EmptyList},
          lang \in Langs \cup {"fr"} :
         /\ request' = [handler |-> "_filter_lang", name |-> "", lang |-> lang]
         /\ call' = FilterCall(ListObj("arg", "", vals[2]), lang)
    /\ response' = NoResponse
    /\ UNCHANGED <<core, phase, disk, disable_eager, validated_cache,
                   solutions_validated_cache>>

\* The response is sent: the server takes one request at a time, and the next
\* one finds nothing of the last but the caches.
Respond ==
    /\ phase = "up"
    /\ request # NoRequest
    /\ request' = NoRequest
    /\ call' = NoCall
    /\ response' = NoResponse
    /\ UNCHANGED <<core, phase, disk, disable_eager, validated_cache,
                   solutions_validated_cache>>

\* Once the last request is over, a file of a data directory is written,
\* replaced or deleted, or the solutions directory is removed or created.
DiskChange ==
    /\ phase = "up"
    /\ \/ \E f \in RequirementsOptions :
            disk' = [disk EXCEPT !.core_dir["requirements.json"] = f]
       \/ \E f \in LegacyOptions :
            disk' = [disk EXCEPT !.repo_root["requirements.json"] = f]
       \/ \E f \in PythonOptions :
            /\ disk.solutions_dir_exists
            /\ disk' = [disk EXCEPT !.solutions_dir["python.json"] = f]
       \/ disk' = [disk EXCEPT !.solutions_dir_exists = ~@,
                               !.solutions_dir = [f \in SolutionFiles |-> Missing]]
    /\ disk' # disk
    /\ request' = NoRequest
    /\ call' = NoCall
    /\ response' = NoResponse
    /\ UNCHANGED <<core, phase, disable_eager, validated_cache,
                   solutions_validated_cache>>

\* The process ends, and its caches with it.
Stop ==
    /\ phase \in {"up", "crashed"}
    /\ phase' = "off"
    /\ validated_cache' = NoCache(CoreFiles)
    /\ solutions_validated_cache' = NoCache(SolutionFiles)
    /\ request' = NoRequest
    /\ call' = NoCall
    /\ response' = NoResponse
    /\ UNCHANGED <<core, disk, disable_eager>>

NextServe ==
    \/ create_app
    \/ api_requirements
    \/ api_compliance
    \/ api_vulnerabilities
    \/ api_solutions
    \/ Respond
    \/ FilterLang
    \/ DiskChange
    \/ Stop

SpecServe == InitServe /\ [][NextServe]_vars

-----------------------------------------------------------------------------
(* Shapes of raw and canonical records, used to state the claims *)

IsStr(x) == x[1] = "str"
StrOrNull(x) == IsStr(x) \/ IsNone(x)
MapOrNull(x) == IsDict(x) \/ IsNone(x)
KeySet(d) == {d[2][i][1][2] : i \in 1..Len(d[2])}
StrList(x) == IsList(x) /\ \A i \in 1..Len(x[2]) : IsStr(x[2][i])

\* x is a mapping with exactly the given fields, each a string.
StrObj(x, fields) ==
    /\ IsDict(x)
    /\ KeySet(x) = Range(fields)
    /\ \A f \in Range(fields) : IsStr(Get(x, f))

\* x.k1.k2..., null as soon as a step is absent or null (x a mapping or null).
RECURSIVE Path(_, _)
Path(x, ks) ==
    IF Len(ks) = 0 THEN x
    ELSE IF IsDict(x) THEN Path(Get(x, Head(ks)), Tail(ks))
    ELSE None

\* The optional fields of each family that are documented as mappings.
ReqMaps == {<<"en">>, <<"es">>, <<"supported_in">>}
CompMaps == {<<"en">>, <<"es">>}
VulnMaps ==
    {<<"en">>, <<"es">>, <<"score">>, <<"score", "base">>, <<"score", "temporal">>,
     <<"score_v4">>, <<"score_v4", "base">>, <<"score_v4", "threat">>,
     <<"metadata">>, <<"metadata", "en">>}
SolMaps ==
    {<<"solution">>, <<"solution", "insecure_code_example">>,
     <<"solution", "secure_code_example">>}

NormalizerOps ==
    {"normalize_requirements", "normalize_compliance", "normalize_vulnerability",
     "normalize_solutions"}

MapsOf(o) ==
    CASE o = "normalize_requirements" -> ReqMaps
      [] o = "normalize_compliance" -> CompMaps
      [] o = "normalize_vulnerability" -> VulnMaps
      [] o = "normalize_solutions" -> SolMaps

\* raw is a mapping whose mapping-shaped optional fields are each absent,
\* null or a mapping; its other fields hold anything.
WellShaped(o, raw) == IsDict(raw) /\ \A p \in MapsOf(o) : MapOrNull(Path(raw, p))

\* Some mapping-shaped optional field of raw holds a value of another shape.
Malformed(o, raw) == IsDict(raw) /\ \E p \in MapsOf(o) : ~MapOrNull(Path(raw, p))

CanonReq(o) ==
    /\ IsDict(o)
    /\ KeySet(o) = {"id", "en", "es", "category", "supported_in", "references",
                    "metadata", "last_update_time"}
    /\ IsStr(Get(o, "id")) /\ IsStr(Get(o, "category"))
    /\ StrObj(Get(o, "en"), <<"title", "summary", "description">>)
    /\ StrObj(Get(o, "es"), <<"title", "summary", "description">>)
    /\ \/ IsNone(Get(o, "supported_in"))
       \/ /\ IsDict(Get(o, "supported_in"))
          /\ KeySet(Get(o, "supported_in")) = {"essential", "advanced"}
    /\ StrList(Get(o, "references"))
    /\ StrOrNull(Get(o, "last_update_time"))

CanonComp(o) ==
    /\ IsDict(o)
    /\ KeySet(o) = {"id", "title", "en_summary", "es_summary", "definitions",
                    "metadata", "last_update_time"}
    /\ \A f \in {"id", "title", "en_summary", "es_summary"} : IsStr(Get(o, f))
    /\ IsList(Get(o, "definitions"))
    /\ \A i \in 1..Len(Get(o, "definitions")[2]) :
         LET d == Get(o, "definitions")[2][i]
         IN  /\ IsDict(d) /\ KeySet(d) = {"id", "title", "link"}
             /\ IsStr(Get(d, "id")) /\ IsStr(Get(d, "title"))
             /\ StrOrNull(Get(d, "link"))
    /\ StrOrNull(Get(o, "last_update_time"))

\* x is null, or a wrapper {k1, k2} of sub-objects that are null or full.
CanonScore(x, k1, fields1, k2, fields2) ==
    \/ IsNone(x)
    \/ /\ IsDict(x) /\ KeySet(x) = {k1, k2}
       /\ IsNone(Get(x, k1)) \/ StrObj(Get(x, k1), fields1)
       /\ IsNone(Get(x, k2)) \/ StrObj(Get(x, k2), fields2)

CanonVuln(o) ==
    /\ IsDict(o)
    /\ KeySet(o) = {"id", "en", "es", "category", "examples", "remediation_time",
                    "score", "score_v4", "requirements", "metadata",
                    "last_update_time"}
    /\ IsStr(Get(o, "id")) /\ IsStr(Get(o, "category"))
    /\ StrObj(Get(o, "en"), LangFields)
    /\ StrObj(Get(o, "es"), LangFields)
    /\ IsNone(Get(o, "examples"))
       \/ StrObj(Get(o, "examples"), <<"non_compliant", "compliant">>)
    /\ StrOrNull(Get(o, "remediation_time"))
    /\ CanonScore(Get(o, "score"), "base", ScoreBaseFields,
                  "temporal", ScoreTemporalFields)
    /\ CanonScore(Get(o, "score_v4"), "base", Score4BaseFields,
                  "threat", Score4ThreatFields)
    /\ StrList(Get(o, "requirements"))
    /\ IsDict(Get(o, "metadata")) /\ KeySet(Get(o, "metadata")) = {"en"}
    /\ StrObj(Get(Get(o, "metadata"), "en"), <<"details">>)
    /\ StrOrNull(Get(o, "last_update_time"))

CanonSol(o) ==
    /\ IsDict(o)
    /\ KeySet(o) = {"vulnerability_id", "title", "context", "need", "solution",
                    "last_update_time"}
    /\ \A f \in {"vulnerability_id", "title", "need"} : IsStr(Get(o, f))
    /\ StrList(Get(o, "context"))
    /\ LET sol == Get(o, "solution")
       IN  /\ IsDict(sol)
           /\ KeySet(sol) = {"language", "insecure_code_example",
                             "secure_code_example", "steps"}
           /\ IsStr(Get(sol, "language"))
           /\ StrObj(Get(sol, "insecure_code_example"), <<"description", "text">>)
           /\ StrObj(Get(sol, "secure_code_example"), <<"description", "text">>)
           /\ StrList(Get(sol, "steps"))
    /\ StrOrNull(Get(o, "last_update_time"))

Canonical(o, x) ==
    CASE o = "normalize_requirements" -> CanonReq(x)
      [] o = "normalize_compliance" -> CanonComp(x)
      [] o = "normalize_vulnerability" -> CanonVuln(x)
      [] o = "normalize_solutions" -> CanonSol(x)

\* The normalizer o applied to (k, raw).
Normalize(o, k, raw) ==
    CASE o = "normalize_requirements" -> normalize_requirements(k, raw)
      [] o = "normalize_compliance" -> normalize_compliance(k, raw)
      [] o = "normalize_vulnerability" -> normalize_vulnerability(k, raw)
      [] o = "normalize_solutions" -> normalize_solutions(raw)

-----------------------------------------------------------------------------
(* Claims about the normalization core *)

\* C1: for each of the four normalizers and every raw mapping whose optional
\* fields are absent, null or of their documented shape, the call returns
\* without raising and the result carries every documented output key: the
\* language blocks are objects with all of their string fields, list fields
\* are lists, and absence only gives an empty string, an empty list or null.
C1_EveryFieldPresent ==
    (op \in NormalizerOps /\ WellShaped(op, arg)) =>
        (~IsExc(out) /\ Canonical(op, out))

\* C1 witness: a requirement whose en is absent and whose es is null was
\* normalized into a record carrying both language blocks.
C1_Witness ==
    /\ op = "normalize_requirements"
    /\ ~HasKey(arg, "en") /\ HasKey(arg, "es") /\ IsNone(Get(arg, "es"))
    /\ HasKey(out, "en") /\ HasKey(out, "es")
    /\ Get(Get(out, "en"), "title") = StrV("")

\* C2: no normalizer raises for malformed-but-present data: for every raw
\* mapping, also one whose optional field holds a value of the wrong shape,
\* the normalizer returns a canonical record instead of raising.
C2_NeverRaises ==
    (op \in NormalizerOps /\ IsDict(arg)) => (~IsExc(out) /\ Canonical(op, out))

\* C3: re-normalizing the canonical record a normalizer produced, with the same
\* id, yields that same record, for all four record families.
C3_Idempotent ==
    (op \in NormalizerOps /\ ~IsExc(out)) => Normalize(op, key, out) = out

\* The entries of a mapping root whose value is a mapping, in iteration order.
Kept(doc) == SelectSeq(doc[2], LAMBDA e : IsDict(e[2]))

\* The list of norm(key, value) over entries, or the exception one of them raises.
MapEntries(norm(_, _), entries) ==
    IF \E i \in 1..Len(entries) : IsExc(norm(entries[i][1], entries[i][2]))
    THEN AttributeError
    ELSE ListV([i \in 1..Len(entries) |-> norm(entries[i][1], entries[i][2])])

\* C4: parse_requirements, parse_compliance and parse_vulnerabilities applied
\* to a mapping document return exactly normalizer(key, value) over the
\* entries whose value is a mapping, in the mapping's iteration order: an
\* entry whose value is no mapping is omitted, every other entry appears once,
\* and element i depends only on the i-th retained entry.
C4_ParsersMapInOrder ==
    /\ (op = "parse_requirements" /\ IsDict(arg)) =>
           out = MapEntries(normalize_requirements, Kept(arg))
    /\ (op = "parse_compliance" /\ IsDict(arg)) =>
           out = MapEntries(normalize_compliance, Kept(arg))
    /\ (op = "parse_vulnerabilities" /\ IsDict(arg)) =>
           out = MapEntries(normalize_vulnerability, Kept(arg))

\* C4 witness: parse_requirements walked a two-entry mapping with keys B then
\* A, one value no mapping, and returned the one record of the other entry.
C4_Witness ==
    /\ op = "parse_requirements"
    /\ IsDict(arg) /\ Len(arg[2]) = 2
    /\ arg[2][1][1] = StrV("B") /\ arg[2][2][1] = StrV("A")
    /\ ~IsDict(arg[2][1][2]) /\ IsDict(arg[2][2][2])
    /\ IsList(out) /\ Len(out[2]) = 1
    /\ Get(out[2][1], "id") = StrV("A")

\* The list of normalize_solutions over the mapping elements of a list root.
MapElems(elems) ==
    LET kept == SelectSeq(elems, IsDict)
    IN  IF \E i \in 1..Len(kept) : IsExc(normalize_solutions(kept[i]))
        THEN AttributeError
        ELSE ListV([i \in 1..Len(kept) |-> normalize_solutions(kept[i])])

-----------------------------------------------------------------------------
(* Claims about the loaders *)

LoaderOps == {"load_yaml_mapping", "load_yaml_sequence", "load_json"}

\* C6: a structurally wrong document root is surfaced as a failure and never
\* coerced: load_yaml_mapping returns the parsed document if and only if its
\* root is a mapping and raises ValueError for every other root (an empty
\* sequence, 0, false and the empty string included); load_yaml_sequence
\* returns the parsed document if and only if its root is a sequence (the
\* empty one included) and raises ValueError otherwise.
C6_RootShapeEnforced ==
    /\ (op = "load_yaml_mapping" /\ arg.kind = "doc") =>
           out = IF IsDict(arg.root) THEN arg.root ELSE ValueError
    /\ (op = "load_yaml_sequence" /\ arg.kind = "doc") =>
           out = IF IsList(arg.root) THEN arg.root ELSE ValueError

\* C7: load_json never raises, whatever the state of the file: it returns
\* (None, not_found) for a missing file, (None, io_error) when reading fails
\* (an undecodable file included), (None, invalid_json) for text that is not
\* JSON, and (document, None) for valid JSON.
C7_LoadJsonNeverRaises ==
    op = "load_json" =>
        /\ ~IsExc(out)
        /\ out = CASE arg.kind = "missing" -> Pair(None, LoadError("not_found"))
                   [] arg.kind \in {"unreadable", "not_utf8"} ->
                          Pair(None, LoadError("io_error"))
                   [] arg.kind = "bad_syntax" -> Pair(None, LoadError("invalid_json"))
                   [] arg.kind = "doc" -> Pair(arg.root, None)

-----------------------------------------------------------------------------
(* The serving layer's caches and language projection *)

CoreHandlers == {"api_requirements", "api_compliance", "api_vulnerabilities"}

\* The last request was answered with a list, by a core handler whose
\* _load_list found the dataset in validated_cache.
ServedFromCoreCache ==
    /\ request.handler \in CoreHandlers
    /\ validated_cache[request.name] # NoList
    /\ response.status = 200

\* The last request was answered with a list by api_solutions: the dataset is
\* then in solutions_validated_cache, found there or just stored.
ServedBySolutions ==
    /\ request.handler = "api_solutions"
    /\ response.status = 200

\* Neither list a nor any of its items is an object of list b.
Apart(a, b) == a.id # b.id /\ ItemIds(a) \cap ItemIds(b) = {}

\* C8: every list handed out for a request from a dataset cache is a copy:
\* the list _load_list returns from validated_cache, the list the core handler
\* returns, and the list api_solutions returns (the request that first stores
\* the dataset included) share no object, list or item mapping, with the cache.
C8_ServedListsAreCopies ==
    /\ ServedFromCoreCache =>
          /\ Apart(call.items, validated_cache[request.name])
          /\ Apart(response.body, validated_cache[request.name])
    /\ ServedBySolutions =>
          Apart(response.body, solutions_validated_cache[SolutionFile(request.name)])

\* C9: a cached dataset is a snapshot: whenever the dataset a request names
\* is in its cache, the request is answered with status 200 and the cached
\* items (language-projected for a core dataset), whatever the file on disk
\* has become.
C9_CachedSnapshotServed ==
    /\ request.handler \in CoreHandlers /\ validated_cache[request.name] # NoList =>
          /\ response.status = 200
          /\ Values(response.body) =
                Values(_filter_lang(validated_cache[request.name], request.lang).ret)
    /\ /\ request.handler = "api_solutions"
       /\ solutions_validated_cache[SolutionFile(request.name)] # NoList
       => /\ response.status = 200
          /\ Values(response.body) =
                Values(solutions_validated_cache[SolutionFile(request.name)])

\* Item b is item a without the key `other`: no such key, every other key of
\* a with a's value, in a's order, and nothing else.
Projected(a, b, other) ==
    /\ IsDict(b)
    /\ ~HasKey(b, other)
    /\ b[2] = SelectSeq(a[2], LAMBDA e : e[1] # StrV(other))

\* C10: language projection.  A call of _filter_lang on mappings leaves the
\* list passed in and its items as they were; for lang en (es) it returns, in
\* the same order, one new mapping per item, the item without its es (en)
\* key; for both, and for any other value, it returns the very list passed
\* in.  A lang=both request served from validated_cache, whatever requests
\* came before it, carries the cached items with both language keys.
C10_LanguageProjection ==
    /\ call # NoCall /\ call.exc = "" =>
          /\ call.after = call.items
          /\ call.lang \in {"en", "es"} =>
                /\ Len(call.ret.items) = Len(call.items.items)
                /\ Apart(call.ret, call.items)
                /\ \A i \in 1..Len(call.items.items) :
                      Projected(call.items.items[i].val, call.ret.items[i].val,
                                IF call.lang = "en" THEN "es" ELSE "en")
          /\ call.lang \notin {"en", "es"} => call.ret = call.items
    /\ ServedFromCoreCache /\ request.lang = "both" =>
          /\ Values(response.body) = Values(validated_cache[request.name])
          /\ \A i \in 1..Len(response.body.items) :
                /\ HasKey(response.body.items[i].val, "en")
                /\ HasKey(response.body.items[i].val, "es")

\* A lang=en request for the requirements is answered from validated_cache:
\* the cached items have an es block, the items returned do not.
C10_Witness ==
    /\ ServedFromCoreCache
    /\ request.handler = "api_requirements"
    /\ request.lang = "en"
    /\ call.lang = "en"
    /\ Len(call.items.items) = 2
    /\ \A i \in 1..2 :
          /\ IsDict(Get(call.items.items[i].val, "es"))
          /\ ~HasKey(response.body.items[i].val, "es")

-----------------------------------------------------------------------------
(* Claim C11: load failures and the status they are answered with *)

\* The file the last request loads: a core dataset from core_dir, or from
\* the repository root when core_dir has none; a solutions dataset from
\* solutions_dir.
LoadedFile ==
    IF request.handler = "api_solutions"
    THEN disk.solutions_dir[SolutionFile(request.name)]
    ELSE IF disk.core_dir[request.name].kind # "missing"
    THEN disk.core_dir[request.name]
    ELSE disk.repo_root[request.name]

\* The model the dataset of the last request is validated against.
LoadedModel ==
    IF request.handler = "api_solutions" THEN "SolutionOut"
    ELSE core_adapters(request.name)

\* Whether the last request loads a file at all: a core handler does unless
\* validated_cache holds the dataset, api_solutions does unless the solutions
\* directory is missing.
Loads ==
    IF request.handler = "api_solutions" THEN disk.solutions_dir_exists
    ELSE validated_cache[request.name] = NoList

\* Whether the last request validates the list it loaded: a core handler
\* does when eager validation is disabled, api_solutions does unless the
\* dataset is in its cache (it is there afterwards only if it was there
\* before, or the validation passed).
Validates ==
    IF request.handler = "api_solutions"
    THEN solutions_validated_cache[SolutionFile(request.name)] = NoList
    ELSE disable_eager

\* What is wrong with the file the last request loads ("" if nothing).
LoadFailure ==
    CASE LoadedFile.kind = "missing" -> "not_found"
      [] LoadedFile.kind = "unreadable" -> "io_error"
      [] LoadedFile.kind = "not_utf8" -> "UnicodeDecodeError"
      [] LoadedFile.kind = "bad_syntax" -> "invalid_json"
      [] LoadedFile.kind = "doc" ->
            IF ~IsList(LoadedFile.root) THEN "not_list"
            ELSE IF IsExc(validate_python[LoadedModel, LoadedFile.root])
            THEN "invalid"
            ELSE ""

\* C11: on the three core endpoints and on /api/solutions a load that fails
\* is answered by the class of its failure: a file that is not found, or a
\* missing solutions directory, with status 404; a file that cannot be read,
\* that is no JSON or whose root is no list, and a list whose validation
\* fails, with status 500; and status 200 only answers a request whose load
\* did not fail.
C11_LoadFailureStatus ==
    request.handler \in CoreHandlers \cup {"api_solutions"} =>
       IF ~Loads
       THEN request.handler = "api_solutions" => response.status = 404
       ELSE /\ LoadFailure = "not_found" => response.status = 404
            /\ LoadFailure \in {"io_error", "invalid_json", "not_list"} =>
                  response.status = 500
            /\ LoadFailure = "invalid" /\ Validates => response.status = 500
            /\ response.status = 200 =>
                  \/ LoadFailure = ""
                  \/ LoadFailure = "invalid" /\ ~Validates

\* A core request whose file holds a list the model rejects, loaded with
\* eager validation disabled, is answered with status 500.
C11_Witness ==
    /\ request.handler = "api_requirements"
    /\ Loads
    /\ Validates
    /\ LoadFailure = "invalid"
    /\ response.status = 500
    /\ response.exc = "HTTPException"

-----------------------------------------------------------------------------
(* Claim C12: ensure_list_of_str *)

\* What ensure_str makes of each scalar: "" of null, of anything else the
\* text Python prints for it.
ScalarStr(x) ==
    CASE x = None -> StrV("")
      [] x = BoolV(FALSE) -> StrV("False")
      [] x = BoolV(TRUE) -> StrV("True")
      [] x = IntV(0) -> StrV("0")
      [] x = IntV(2) -> StrV("2")
      [] x = IntV(7) -> StrV("7")
      [] x[1] = "str" -> x

\* C12: ensure_list_of_str returns a list of strings for every value: the
\* empty list for null; for a list, the list of the same length whose i-th
\* element is ensure_str of the i-th element ("" for a null element, the
\* string representation for a number or a boolean); for any other value the
\* one-element list [ensure_str(value)].
C12_EnsureListOfStr ==
    op = "ensure_list_of_str" =>
       /\ IsList(out)
       /\ \A i \in 1..Len(out[2]) : out[2][i][1] = "str"
       /\ IsNone(arg) => out = EmptyList
       /\ IsList(arg) =>
             /\ Len(out[2]) = Len(arg[2])
             /\ \A i \in 1..Len(arg[2]) :
                   /\ out[2][i] = ensure_str(arg[2][i])
                   /\ arg[2][i] \in Scalars \cup {StrV("a"), IntV(2)} =>
                         out[2][i] = ScalarStr(arg[2][i])
       /\ ~IsNone(arg) /\ ~IsList(arg) =>
             /\ out = ListV(<<ensure_str(arg)>>)
             /\ arg \in Scalars => out = ListV(<<ScalarStr(arg)>>)

\* A list holding a null and a boolean has become ["", "True"].
C12_Witness ==
    /\ op = "ensure_list_of_str"
    /\ arg = ListV(<<None, BoolV(TRUE)>>)
    /\ out = ListV(<<StrV(""), StrV("True")>>)

-----------------------------------------------------------------------------
(* Claim C13: supported_in of a requirement *)

\* C13: for a raw requirement whose supported_in is absent, null or a mapping,
\* normalize_requirements outputs a null supported_in when the raw one is
\* absent, null or the empty mapping, and otherwise a mapping of exactly the
\* keys essential and advanced, each holding the raw value of that key, null
\* for a key the raw mapping lacks; no other raw key is kept.
C13_SupportedIn ==
    (op = "normalize_requirements" /\ WellShaped(op, arg)) =>
       LET raw == Get(arg, "supported_in")
           supported_in == Get(out, "supported_in")
       IN  /\ HasKey(out, "supported_in")
           /\ IF IsNone(raw) \/ raw = EmptyDict
              THEN supported_in = None
              ELSE /\ IsDict(supported_in)
                   /\ Len(supported_in[2]) = 2
                   /\ KeySet(supported_in) = {"essential", "advanced"}
                   /\ \A k \in {"essential", "advanced"} :
                         Get(supported_in, k) =
                            IF HasKey(raw, k) THEN Lookup(raw, k) ELSE None

\* A raw supported_in with advanced and a key of its own has become
\* {essential: null, advanced: "yes"}.
C13_Witness ==
    /\ op = "normalize_requirements"
    /\ WellShaped(op, arg)
    /\ IsDict(Get(arg, "supported_in"))
    /\ KeySet(Get(arg, "supported_in")) = {"advanced", "premium"}
    /\ Get(out, "supported_in") =
          Obj(<< <<"essential", None>>, <<"advanced", StrV("yes")>> >>)

-----------------------------------------------------------------------------
(* Claim C14: the inline list rule of references and requirements *)

\* The field of each normalizer that is built by the inline list rule.
InlineListField(o) ==
    CASE o = "normalize_requirements" -> "references"
      [] o = "normalize_vulnerability" -> "requirements"

\* C14: the list normalize_requirements outputs as references, and the list
\* normalize_vulnerability outputs as requirements, is ensure_list_of_str of
\* the raw value of the field, whatever that value is: absent, null, a list,
\* or a bare scalar, which becomes a one-element list (0, false and the empty
\* string included).
C14_InlineListRule ==
    (op \in {"normalize_requirements", "normalize_vulnerability"}
        /\ IsDict(arg) /\ ~IsExc(out)) =>
       Get(out, InlineListField(op)) =
          ensure_list_of_str(Get(arg, InlineListField(op)))

-----------------------------------------------------------------------------
(* Claim C15: last_update_time *)

\* C15: in each of the four normalizers the output last_update_time is null
\* exactly when the raw value is absent or null; any other raw value, the
\* falsy false, 0 and "" included, gives its string representation.
C15_LastUpdateTime ==
    (op \in NormalizerOps /\ IsDict(arg) /\ ~IsExc(out)) =>
       LET raw == Get(arg, "last_update_time")
           last == Get(out, "last_update_time")
       IN  /\ HasKey(out, "last_update_time")
           /\ IsNone(last) <=> IsNone(raw)
           /\ ~IsNone(raw) => last = StrV(PyStr(raw))
           /\ (~IsNone(raw) /\ raw \in Scalars) => last = ScalarStr(raw)

\* A solution whose last_update_time is false carries "False".
C15_Witness ==
    /\ op = "normalize_solutions"
    /\ IsDict(arg)
    /\ Get(arg, "last_update_time") = BoolV(FALSE)
    /\ Get(out, "last_update_time") = StrV("False")

-----------------------------------------------------------------------------
(* Claim C16: the definitions of a compliance control *)

\* The element the entry (did, dval) of a raw definitions mapping is to give.
DefinitionOf(did, dval, el) ==
    /\ IsDict(el)
    /\ Len(el[2]) = 3
    /\ KeySet(el) = {"id", "title", "link"}
    /\ Get(el, "id") = StrV(PyStr(did))
    /\ IF IsDict(dval)
       THEN /\ Get(el, "title") =
                  IF HasKey(dval, "title") /\ ~IsNone(Lookup(dval, "title"))
                  THEN StrV(PyStr(Lookup(dval, "title")))
                  ELSE StrV("")
            /\ Get(el, "link") =
                  IF HasKey(dval, "link") /\ ~IsNone(Lookup(dval, "link"))
                  THEN StrV(PyStr(Lookup(dval, "link")))
                  ELSE None
       ELSE /\ Get(el, "title") = ensure_str(dval)
            /\ Get(el, "link") = None

\* C16: normalize_compliance turns a raw definitions mapping into a list with
\* one element per entry, in the mapping's order: id is the key as a string;
\* for a mapping value, title is its title as a string ("" when absent) and
\* link its link as a string, null when absent; for any other value, title is
\* the value as a string and link is null.  A definitions that is absent,
\* empty or no mapping gives the empty list.
C16_Definitions ==
    (op = "normalize_compliance" /\ IsDict(arg) /\ ~IsExc(out)) =>
       LET defs == Get(arg, "definitions")
           definitions_list == Get(out, "definitions")
       IN  /\ IsList(definitions_list)
           /\ IF IsDict(defs)
              THEN /\ Len(definitions_list[2]) = Len(defs[2])
                   /\ \A i \in 1..Len(defs[2]) :
                         DefinitionOf(defs[2][i][1], defs[2][i][2],
                                      definitions_list[2][i])
              ELSE definitions_list = EmptyList

\* A bare 0 under D2 followed by a mapping without link under D1 has become
\* the two elements, in that order.
C16_Witness ==
    /\ op = "normalize_compliance"
    /\ IsDict(arg)
    /\ Get(arg, "definitions") =
          Obj(<< <<"D2", IntV(0)>>, <<"D1", Obj(<< <<"title", StrV("T")>> >>)>> >>)
    /\ Get(out, "definitions") =
          ListV(<<Obj(<< <<"id", StrV("D2")>>, <<"title", StrV("0")>>,
                         <<"link", None>> >>),
                  Obj(<< <<"id", StrV("D1")>>, <<"title", StrV("T")>>,
                         <<"link", None>> >>)>>)

-----------------------------------------------------------------------------
(* Claim C17: the score blocks of a vulnerability *)

\* The sub-objects of the two score blocks: wrapper, key, fields, and how
\* many fields there are.
ScoreSubs ==
    {<<"score", "base", ScoreBaseFields, 8>>,
     <<"score", "temporal", ScoreTemporalFields, 3>>,
     <<"score_v4", "base", Score4BaseFields, 11>>,
     <<"score_v4", "threat", Score4ThreatFields, 1>>}

\* sub is the raw sub-object sub_raw with each of the fields as a string, ""
\* for a field that is absent or null.
Defaulted(sub, sub_raw, fields, n) ==
    /\ IsDict(sub)
    /\ Len(sub[2]) = n
    /\ Len(fields) = n
    /\ KeySet(sub) = Range(fields)
    /\ \A f \in Range(fields) :
          Get(sub, f) =
             IF HasKey(sub_raw, f) /\ ~IsNone(Lookup(sub_raw, f))
             THEN StrV(PyStr(Lookup(sub_raw, f)))
             ELSE StrV("")

\* C17: in every record normalize_vulnerability returns, each of score.base,
\* score.temporal, score_v4.base and score_v4.threat is non-null exactly when
\* the raw sub-object is a non-empty mapping, and then holds all its fields
\* (8, 3, 11, 1) as strings, "" for an absent or null leaf, whatever the truth
\* value of the leaves; score and score_v4 are non-null exactly when one of
\* their two sub-objects is; and score is what the raw score alone gives,
\* score_v4 what the raw score_v4 alone gives.
C17_ScoreGating ==
    (op = "normalize_vulnerability" /\ IsDict(arg) /\ ~IsExc(out)) =>
       /\ \A s \in ScoreSubs :
             LET sub_raw == Path(arg, <<s[1], s[2]>>)
                 sub == Path(out, <<s[1], s[2]>>)
             IN  /\ ~IsNone(sub) <=> (IsDict(sub_raw) /\ sub_raw # EmptyDict)
                 /\ ~IsNone(sub) => Defaulted(sub, sub_raw, s[3], s[4])
       /\ \A w \in {"score", "score_v4"} :
             LET other == IF w = "score" THEN "temporal" ELSE "threat"
             IN  /\ HasKey(out, w)
                 /\ ~IsNone(Get(out, w)) <=>
                       (~IsNone(Path(out, <<w, "base">>))
                           \/ ~IsNone(Path(out, <<w, other>>)))
                 /\ ~IsNone(Get(out, w)) =>
                       /\ Len(Get(out, w)[2]) = 2
                       /\ KeySet(Get(out, w)) = {"base", other}
                 /\ Get(out, w) =
                       Get(normalize_vulnerability(key, Obj(<< <<w, Get(arg, w)>> >>)), w)

\* A raw score with only a temporal block, its one leaf null, has become a
\* score with a null base and a temporal of three empty strings.
C17_Witness ==
    /\ op = "normalize_vulnerability"
    /\ IsDict(arg)
    /\ Get(arg, "score") =
          Obj(<< <<"temporal", Obj(<< <<"remediation_level", None>> >>)>> >>)
    /\ Get(out, "score") =
          Obj(<< <<"base", None>>,
                 <<"temporal", Obj(<< <<"exploit_code_maturity", StrV("")>>,
                                      <<"remediation_level", StrV("")>>,
                                      <<"report_confidence", StrV("")>> >>)>> >>)

-----------------------------------------------------------------------------
(* Claim C18: the examples of a vulnerability *)

\* The leaf k of a raw examples value: null unless the value is a mapping
\* holding k.
ExampleLeaf(ex, k) == IF IsDict(ex) THEN Get(ex, k) ELSE None

\* C18: the examples normalize_vulnerability outputs is non-null exactly when
\* the raw examples.non_compliant or examples.compliant is truthy, and then
\* holds exactly non_compliant and compliant, each the raw leaf as a string,
\* "" for an absent one; a raw examples that is absent, empty, no mapping, or
\* a mapping with only falsy leaves gives null.
C18_Examples ==
    (op = "normalize_vulnerability" /\ IsDict(arg) /\ ~IsExc(out)) =>
       LET ex == Get(arg, "examples")
           examples == Get(out, "examples")
       IN  /\ HasKey(out, "examples")
           /\ ~IsNone(examples) <=>
                 (Truthy(ExampleLeaf(ex, "non_compliant"))
                     \/ Truthy(ExampleLeaf(ex, "compliant")))
           /\ ~IsNone(examples) =>
                 /\ IsDict(examples)
                 /\ Len(examples[2]) = 2
                 /\ KeySet(examples) = {"non_compliant", "compliant"}
                 /\ \A k \in {"non_compliant", "compliant"} :
                       Get(examples, k) =
                          IF IsNone(ExampleLeaf(ex, k)) THEN StrV("")
                          ELSE StrV(PyStr(ExampleLeaf(ex, k)))

\* A raw examples with only non_compliant has become the two-key block.
C18_Witness ==
    /\ op = "normalize_vulnerability"
    /\ IsDict(arg)
    /\ Get(arg, "examples") = Obj(<< <<"non_compliant", StrV("bad")>> >>)
    /\ Get(out, "examples") =
          Obj(<< <<"non_compliant", StrV("bad")>>, <<"compliant", StrV("")>> >>)

-----------------------------------------------------------------------------
(* Claim C19: the metadata of a vulnerability *)

\* C19: the metadata of every record normalize_vulnerability returns is
\* exactly {"en": {"details": s}}, s being the raw metadata.en.details as a
\* string, "" when metadata, metadata.en or details is absent; no other key of
\* the raw metadata, at any level, is kept.
C19_MetadataNarrowed ==
    (op = "normalize_vulnerability" /\ IsDict(arg) /\ ~IsExc(out)) =>
       LET details == Path(arg, <<"metadata", "en", "details">>)
       IN  /\ HasKey(out, "metadata")
           /\ Get(out, "metadata") =
                 Obj(<< <<"en",
                          Obj(<< <<"details",
                                   IF IsNone(details) THEN StrV("")
                                   ELSE StrV(PyStr(details))>> >>)>> >>)

\* A raw metadata with en.details, a second key under en and an es block has
\* become {"en": {"details": "dt"}}.
C19_Witness ==
    /\ op = "normalize_vulnerability"
    /\ IsDict(arg)
    /\ HasKey(Get(arg, "metadata"), "es")
    /\ HasKey(Path(arg, <<"metadata", "en">>), "more")
    /\ Get(out, "metadata") =
          Obj(<< <<"en", Obj(<< <<"details", StrV("dt")>> >>)>> >>)

-----------------------------------------------------------------------------
(* Claim C20: the solution block of a solution record *)

\* The solution block with every leaf at its default.
ZeroSolution ==
    Obj(<< <<"language", StrV("")>>,
           <<"insecure_code_example",
             Obj(<< <<"description", StrV("")>>, <<"text", StrV("")>> >>)>>,
           <<"secure_code_example",
             Obj(<< <<"description", StrV("")>>, <<"text", StrV("")>> >>)>>,
           <<"steps", EmptyList>> >>)

CodeExamples == {"insecure_code_example", "secure_code_example"}

\* C20: the solution of every record normalize_solutions returns is an
\* object, never null: the zero-valued one (language "", steps [], both code
\* examples {description: "", text: ""}) when the raw record has no solution
\* or a null or empty one; and for a raw solution that holds only part of its
\* fields, language, steps and each of the four code-example leaves come from
\* their own raw value, at its default when that value is absent.
C20_SolutionNeverNull ==
    (op = "normalize_solutions" /\ IsDict(arg) /\ ~IsExc(out)) =>
       LET raw == Get(arg, "solution")
           solution == Get(out, "solution")
           language == Path(arg, <<"solution", "language">>)
       IN  /\ HasKey(out, "solution")
           /\ IsDict(solution)
           /\ Len(solution[2]) = 4
           /\ KeySet(solution) = {"language", "steps"} \cup CodeExamples
           /\ (IsNone(raw) \/ raw = EmptyDict) => solution = ZeroSolution
           /\ IsStr(Get(solution, "language"))
           /\ IsNone(language) => Get(solution, "language") = StrV("")
           /\ Truthy(language) => Get(solution, "language") = StrV(PyStr(language))
           /\ Get(solution, "steps") =
                 ensure_list_of_str(Path(arg, <<"solution", "steps">>))
           /\ \A name \in CodeExamples :
                 /\ IsDict(Get(solution, name))
                 /\ Len(Get(solution, name)[2]) = 2
                 /\ \A leaf \in {"description", "text"} :
                       LET v == Path(arg, <<"solution", name, leaf>>)
                       IN  Path(out, <<"solution", name, leaf>>) =
                              IF IsNone(v) THEN StrV("") ELSE StrV(PyStr(v))

\* A record without a solution key, other fields present, has the zero-valued
\* solution.
C20_Witness ==
    /\ op = "normalize_solutions"
    /\ IsDict(arg)
    /\ HasKey(arg, "title")
    /\ ~HasKey(arg, "solution")
    /\ Get(out, "solution") = ZeroSolution

-----------------------------------------------------------------------------
(* Claim C21: metadata passthrough and purity *)

-----------------------------------------------------------------------------
(* Claim C22: the canonical records and the response models *)

\* The arrays run_parse.py writes and the parsers return.
ParserArrays == {ReqList, ReqList2, CompList, VulnList, SolList, SolList2}

\* C22: the records the parsers write are what the serving layer sends: when
\* a dataset file holds a parser's array and a request for the dataset is
\* answered with a list, every top-level key of the records in the file is a
\* key of the records sent, for each of the four datasets (en_summary and
\* es_summary of a compliance control included).
C22_NoFieldDropped ==
    (/\ request.handler \in CoreHandlers \cup {"api_solutions"}
     /\ response.status = 200
     /\ LoadedFile.kind = "doc"
     /\ LoadedFile.root \in ParserArrays) =>
       \A i \in 1..Len(response.sent[2]), j \in 1..Len(LoadedFile.root[2]) :
          KeySet(LoadedFile.root[2][j]) \subseteq KeySet(response.sent[2][i])

-----------------------------------------------------------------------------
(* Claim C23: what _load_list returns has been validated *)

\* C23: every list _load_list returns to a core handler has been validated
\* against the dataset's model, whichever path produced it: it is a copy of
\* the eager cache's entry or the dump of the on-demand validation, and its
\* records pass the model.
C23_LoadedListsValidated ==
    (request.handler \in CoreHandlers /\ call # NoCall) =>
       /\ call.items.id[1] \in {"copy", "on_demand"}
       /\ ~IsExc(ValidateAndDump(LoadedModel, Values(call.items)))

-----------------------------------------------------------------------------
(* Claim C24: the pair load_json returns *)

\* C24: the pair load_json returns is well formed for every file: exactly
\* one of data and error is non-null, so a null error means a document was
\* loaded (a file whose whole content is the literal null included).
C24_WellFormedPair ==
    (op = "load_json" /\ ~IsExc(out)) =>
       /\ out[1] = "tuple"
       /\ (out[2][1] # None) # (out[2][2] # None)

-----------------------------------------------------------------------------
(* Claim C25: the string fields of normalize_solutions *)

\* C25: in every record normalize_solutions returns, vulnerability_id, title
\* and solution.language are ensure_str of the raw value: "" for an absent
\* or null field, and the string form of any other scalar, 0 and false
\* included.
C25_SolutionStrings ==
    (op = "normalize_solutions" /\ ~IsExc(out)) =>
       LET raw == Or(arg, EmptyDict)
           solution == Or(Get(raw, "solution"), EmptyDict)
       IN  /\ Get(out, "vulnerability_id") = ensure_str(Get(raw, "vulnerability_id"))
           /\ Get(out, "title") = ensure_str(Get(raw, "title"))
           /\ Path(out, <<"solution", "language">>) = ensure_str(Get(solution, "language"))

=============================================================================
